---- MODULE Spec2Model ----
(***************************************************************************)
(* State-machine model of the squeaky NSQ client.                          *)
(*                                                                         *)
(*  - Subscriber (lib/connection.js 543-836): the lookup poll loop, the    *)
(*    connection set and the RDY distribution (_distributeReady), with     *)
(*    pause()/unpause() and the deferred start on the first 'message'      *)
(*    listener.                                                            *)
(*  - Connection (lib/connection.js 63-358): socket life cycle, IDENTIFY   *)
(*    handshake, the command queue drained by _pulse, frame processing,    *)
(*    the inflight map with its timers, close().                           *)
(*  - Connection of unnamed/part_005: the waiting list, the chained sends  *)
(*    and the classification of ERROR frames.                              *)
(*  - Message (lib/message.js): touched, keepalive, expired, expiresIn.    *)
(*  - ReconnectingSocket (lib/socket.js): retry timer, attempt counter,    *)
(*    end().                                                               *)
(*  - Discoverer (lib/discoverer.js 176-316): ready() dividing the         *)
(*    concurrency over its connections.                                    *)
(*  - The frame decoders: _receive (lib/connection.js), _consumeFrame      *)
(*    (unnamed/part_005) and decodeFrames (lib/each.js).                   *)
(*  - nsqd answering the commands of the Connection of unnamed/part_005.   *)
(*  - Queue (lib/queue.js): add, start, stop and _pulse.                   *)
(*  - Squeaky (lib/index.js, unnamed/part_003): subscribe().               *)
(*                                                                         *)
(* Every handler of the program is one action.  A handler that awaits an   *)
(* external event (a lookup reply, a frame, a timer) is cut at that await. *)
(***************************************************************************)
EXTENDS Integers, Sequences, FiniteSets, TLC

\* ------------------------------------------------------------------------
\* Bounds of the model
\* ------------------------------------------------------------------------
MaxLookups == 2          \* lookup URLs of a Subscriber in lookup mode
MaxHosts == 3
MaxConcurrency == 3
MaxListeners == 1
MaxCmds == 2            \* commands submitted on the connection
MaxPulses == 2          \* heartbeats are answered while fewer _pulse callbacks are pending
MaxIdentifies == 2      \* successful TCP connects of the connection
MaxConnectAttempts == 2 \* options.maxConnectAttempts
MaxMsgIds == 2          \* distinct message ids of the channel
MaxDeliveries == 2      \* MESSAGE frames nsqd sends to the connection
MaxRdy == 2             \* largest count the application passes to ready(count)
MaxMsgCmds == 2         \* commands submitted after SUB and RDY once a message was received
MaxClock == 4           \* Date.now() runs from 0 to MaxClock
MaxBacklog == 2         \* latest publish time of the message
MaxMsgTimeout == 2      \* largest features.msg_timeout
MaxMaxMsgTimeout == 4   \* largest features.max_msg_timeout
MaxRefused == 1         \* publish() calls that are rejected at once
MaxSockAttempts == 3    \* largest options.maxConnectAttempts of the ReconnectingSocket
MaxDelayFactor == 2     \* largest options.reconnectDelayFactor
MaxMaxDelay == 3        \* largest options.maxReconnectDelay
MaxDiscConcurrency == 6 \* largest options.concurrency of a Discoverer
MaxDiscConnections == 4 \* most connections a Discoverer holds
MaxFrames == 2          \* frames nsqd writes to the byte stream
MaxBody == 2            \* longest frame body, in bytes
MaxTasks == 3           \* tasks added to a Queue
MaxStops == 2           \* stop() promises of a Queue that wait for 'stopped'
MaxNames == 2           \* topic.channel pairs a Squeaky client subscribes to
MaxCalls == 3           \* subscribe() calls made on a Squeaky client

Hosts == 1..MaxHosts

Lookups == 1..MaxLookups

MsgIds == 1..MaxMsgIds

\* the MESSAGE frames received by the connection, numbered in order of receipt
Deliveries == 1..MaxDeliveries

\* JavaScript `undefined` for a numeric field that was never assigned.
Undef == -1

\* an inflight entry's timer that was cleared or has fired
NoTimer == -1

VARIABLES
  subState,       \* Subscriber.state
  optConcurrency, \* Subscriber.options.concurrency
  concurrency,    \* Subscriber.concurrency (0 while paused)
  lookupMode,     \* options.lookup.length > 0
  connections,    \* Subscriber.connections: Map in insertion order, as a sequence of hosts
  cReady,         \* connection._ready per host
  rdy,            \* count of the last RDY command handed to the connection by ready(count)
  lastMessage,    \* connection._lastMessage per host (time stamps kept as dense ranks)
  started,        \* Subscriber._started
  listeners,      \* number of 'message' listeners added
  awaitingStart,  \* newListener handlers suspended on once('pollComplete' | 'ready')
  resumedStart,   \* newListener handlers whose await has resolved, continuation not yet run
  connectWait,    \* connect(): "none" | "await" (suspended) | "resumed"
  pollTimer,      \* Subscriber._pollTimer is armed
  lookedUp,       \* per lookup URL: what it answered to the last poll
  warns,          \* per lookup URL: 'warn' events with code ELOOKUPERROR emitted by the last poll
  removed,        \* the connections closed, deleted and announced 'removed' by the last poll
  subClose,       \* Subscriber.close(): "idle" | "awaitPoll" | "resumed" | "closing" | "done"
  closeWaited,    \* close() found a poll running and awaited its pollComplete
  closeFound,     \* the connections in the map when close() cleared the poll timer
  closeRemoved,   \* the connections closed, deleted and announced 'removed' by close()
  state,          \* Connection.state
  socket,         \* Connection.socket: "connecting" | "open" | "down"
  reconnectTimer, \* the setTimeout of _reconnect is pending
  connectAttempts,\* Connection._connectAttempts
  subscribed,     \* Connection.subscribed is set
  queue,          \* Connection.queue: Set in insertion order, as a sequence of envelopes
  envelope,       \* Connection._envelope: id of the recorded waiter, 0 when undefined
  pulsingReady,   \* the once('ready') promise at the base of _pulsing has resolved
  pulses,         \* callbacks chained on _pulsing by _pulse() that have not started
  running,        \* a _pulse callback is running (its each() chain is unresolved)
  batch,          \* the envelopes each() took from queue.values(), not yet handled
  awaited,        \* id of the envelope whose `completed` the each() chain awaits, 0 if none
  nextId,         \* id of the next envelope created by a command method
  written,        \* ids of the queued commands handed to socket.write, in order
  unresolved,     \* ids of written envelopes whose promise is neither resolved nor rejected
  identifies,     \* number of IDENTIFY commands written
  readyEmits,     \* number of 'ready' events emitted
  closeAt,        \* close(): Undef until it awaits _pulsing, else the _pulse callbacks it still awaits
  closeStage,     \* close(): "idle" | "called" | "inflight" (awaits the promises) | "pulsing"
  closeWait,      \* close(): the inflight entries whose promises its Promise.all awaits
  closedEmits,    \* number of 'closed' events emitted
  sentRdy,        \* count of the RDY command written last, 0 before the first
  refused,        \* number of publish() calls that returned a rejected promise
  inflight,       \* Connection._inflight: per message id the entry set for it, 0 when absent
  timer,          \* per entry: NoTimer, or the armed timer (counted by the touchedAt before it)
  resolved,       \* the entries whose promise is resolved
  delivered,      \* message id of each MESSAGE frame received, in order
  srvSub,         \* nsqd: the TCP connection is subscribed
  srvRdy,         \* nsqd: RDY count of the TCP connection
  srvInflight,    \* nsqd: ids of the messages in flight on the TCP connection
  incoming,       \* MESSAGE frames sent by nsqd and not received yet
  now,            \* Date.now()
  msgTimeout,     \* connection.features.msg_timeout
  maxMsgTimeout,  \* connection.features.max_msg_timeout
  published,      \* Message.published
  timestamp,      \* Message.timestamp (time of receipt)
  touched,        \* Message.touched
  msgTimer,       \* Message.timer is set (keepalive)
  touchedAt,      \* time of the last touch() by the application, Undef before the first
  touchedBefore,  \* Message.touched and Message.timer as the last touch() found them
  timerBefore,
  expiresBefore,  \* expiresIn read right before and right after the last touch()
  expiresAfter,
  kaStage,        \* keepalive(): "none" | "touching" (awaits touch()) | "armed" (timer pending)
                  \* | "stopped" (it found the message expired)
  msgFinished,    \* finish() or requeue() of the Message has returned
  touchedLate,    \* keepalive() has sent a TOUCH after finish() or requeue() returned
  waiting,        \* Connection.waiting of part_005: ids of the envelopes that need a response
  rejected,       \* ids of the envelopes whose promise was rejected (0, IDENTIFY, until its
                  \* catch has run)
  readyCount,     \* Connection.readyCount of part_005
  resub,          \* the once('ready') handler that subscribes again is registered
  resubSub,       \* id of the SUB sent by that handler, 0 before
  resubRdy,       \* id of the RDY sent after that SUB was answered, 0 before
  outageCmds,     \* ids of the commands the application submitted between a disconnect and
                  \* the next 'ready'
  afterError,     \* ids of the commands submitted after an ERROR frame rejected a command
  lost,           \* ids of the commands handed to socket.write of a socket that was not open
  sentCmds,       \* the commands written to the open socket that nsqd has not read yet
  inFlight,       \* the frames nsqd has sent and the socket has not delivered yet, each
                  \* with the id of the command that caused it
  sock,           \* ReconnectingSocket: "connecting" | "open" | "ending" | "closed"
  maxConnectAttempts,   \* options.maxConnectAttempts
  reconnectDelayFactor, \* options.reconnectDelayFactor
  maxReconnectDelay,    \* options.maxReconnectDelay
  sockAttempts,   \* ReconnectingSocket._connectAttempts
  retryTimer,     \* ReconnectingSocket._retryTimer: NoTimer, or the delay of the pending timeout
  finished,       \* ReconnectingSocket.finished
  closeListeners, \* the listeners of 'close' among _reconnect and _disconnect
  reconnectArmed, \* once('connect', _emitReconnect) is registered
  ended,          \* end() was called
  sockConnects,   \* number of connect() calls made by the retry timer
  sockEmits,      \* number of events emitted, per event name
  dConcurrency,   \* Discoverer.options.concurrency
  dSize,          \* Discoverer.connections.size
  dCounts,        \* the counts the last ready() passed to connection.ready, in Map order,
                  \* each a JavaScript number kept as the fraction num/den
  decoder,        \* the deframer that reads the stream: "receive" (lib/connection.js),
                  \* "consume" (unnamed/part_005) or "decode" (decodeFrames of lib/each.js)
  sentFrames,     \* the frames nsqd wrote, in order, as [type, data]
  wire,           \* the bytes of the stream that the socket has not delivered yet
  buffer,         \* Connection._buffer: the bytes kept for the next chunk
  frames,         \* the frames handed to _processFrame, in order, as [type, data]
  retained,       \* some chunk ended inside a frame
  qItems,         \* Queue.items, the tasks numbered in the order of their add()
  qRunning,       \* Queue.running
  qDrained,       \* Queue.drained
  qActive,        \* the tasks whose action() promise has not settled
  qStarted,       \* the tasks whose action was started, in that order
  qSettled,       \* per task, its envelope promise: "pending" | "resolved" | "rejected"
  qStopWaiters,   \* the once('stopped') listeners of pending stop() promises
  qStopped,       \* a promise returned by stop() has resolved and start() was not
                  \* called since
  qNext,          \* the number of the next task
  qFirsts,        \* the tasks added with first = true
  sqConnections,  \* Squeaky.connections, per name: the connection, 0 = no entry;
                  \* a connection is numbered by the call that created it
  sqCalls         \* per subscribe() call: name (0 = not called), stage ("none" |
                  \* "subscribing" | "resolved" | "rejected"), the connection it
                  \* holds and whether the call created it

pollVars == <<lookedUp, warns, removed>>

closeVars == <<subClose, closeWaited, closeFound, closeRemoved>>

subVars == <<subState, optConcurrency, concurrency, lookupMode, connections, cReady, rdy,
             lastMessage, started, listeners, awaitingStart, resumedStart, connectWait,
             pollTimer, pollVars, closeVars>>

msgVars == <<inflight, timer, resolved, delivered>>

srvVars == <<srvSub, srvRdy, srvInflight, incoming>>

connVars == <<state, socket, reconnectTimer, connectAttempts, subscribed, queue, envelope,
              pulsingReady, pulses, running, batch, awaited, nextId, written, unresolved,
              identifies, readyEmits, closeAt, closeStage, closeWait, closedEmits, sentRdy,
              refused, msgVars, srvVars>>

keepVars == <<kaStage, msgFinished, touchedLate>>

messageVars == <<now, msgTimeout, maxMsgTimeout, published, timestamp, touched, msgTimer,
                 touchedAt, touchedBefore, timerBefore, expiresBefore, expiresAfter, keepVars>>

resubVars == <<readyCount, resub, resubSub, resubRdy, outageCmds, afterError, lost>>

replyVars == <<sentCmds, inFlight>>

waitVars == <<waiting, rejected, resubVars, replyVars>>

sockVars == <<sock, maxConnectAttempts, reconnectDelayFactor, maxReconnectDelay, sockAttempts,
              retryTimer, finished, closeListeners, reconnectArmed, ended, sockConnects,
              sockEmits>>

discVars == <<dConcurrency, dSize, dCounts>>

\* the objects of the other modules of the library
codecVars == <<decoder, sentFrames, wire, buffer, frames, retained>>

queueVars == <<qItems, qRunning, qDrained, qActive, qStarted, qSettled, qStopWaiters,
               qStopped, qNext, qFirsts>>

squeakyVars == <<sqConnections, sqCalls>>

libVars == <<discVars, codecVars, queueVars, squeakyVars>>

vars == <<subVars, connVars, messageVars, waitVars, sockVars, libVars>>

\* ------------------------------------------------------------------------
\* Helpers
\* ------------------------------------------------------------------------
Range(s) == {s[i] : i \in 1..Len(s)}

Min(a, b) == IF a < b THEN a ELSE b

\* Array.prototype.slice(0, n)
Slice(list, n) == SubSeq(list, 1, Min(n, Len(list)))

\* Array.prototype.filter / the push loops of _distributeReady: keeps order
RECURSIVE Filter(_, _)
Filter(list, keep) ==
  IF list = <<>> THEN <<>>
  ELSE IF Head(list) \in keep THEN <<Head(list)>> \o Filter(Tail(list), keep)
       ELSE Filter(Tail(list), keep)

\* all orderings of the elements of a set
Orderings(S) == {p \in [1..Cardinality(S) -> S] : Range(p) = S}

IndexOf(list, x) == CHOOSE i \in 1..Len(list) : list[i] = x

RECURSIVE SumOver(_, _)
SumOver(f, S) ==
  IF S = {} THEN 0
  ELSE LET x == CHOOSE y \in S : TRUE IN f[x] + SumOver(f, S \ {x})

\* ------------------------------------------------------------------------
\* Subscriber: RDY distribution
\* ------------------------------------------------------------------------

\* The comparator (a, b) => a._lastMessage - b._lastMessage returns a value > 0.
\* With an undefined operand the difference is NaN, which sort treats as 0.
Gt(lm, a, b) == lm[a] # Undef /\ lm[b] # Undef /\ lm[a] > lm[b]

\* The comparator is a consistent ordering of the list (ECMAScript: otherwise
\* the resulting order is implementation-defined).
ConsistentCmp(list, lm) ==
  \/ \A x \in Range(list) : lm[x] # Undef
  \/ \A x, y \in Range(list) : ~Gt(lm, x, y)

\* Array.prototype.sort with that comparator: the stable ascending order, or
\* any order when the comparator is inconsistent.
SortResults(list, lm) ==
  IF ConsistentCmp(list, lm)
  THEN {p \in Orderings(Range(list)) :
          \A i, j \in 1..Len(p) : i < j =>
             /\ ~Gt(lm, p[i], p[j])
             /\ (~Gt(lm, p[j], p[i]) => IndexOf(list, p[i]) < IndexOf(list, p[j]))}
  ELSE Orderings(Range(list))

\* connection._ready > 0  (undefined > 0 is false)
IsUsed(r) == r > 0

UsedList(conns, cr) == Filter(conns, {h \in Range(conns) : IsUsed(cr[h])})

UnusedList(conns, cr) == Filter(conns, {h \in Range(conns) : ~IsUsed(cr[h])})

\* a distribution that rounds the share up instead of down
ShareRoundedUp(C, N) == (C + N - 1) \div N

\* Math.floor(this.concurrency / this.connections.size)
Share(C, N) == C \div N

\* unused.sort(...).slice(0, this.concurrency)
UnusedSlice(sorted, C) == Slice(sorted, C)

\* used.sort(...).slice(0, unused.length)
UsedSlice(sorted, unused) == Slice(sorted, Len(unused))

\* The connection.ready(count) calls of one _distributeReady run, in order,
\* given the two sorted lists.
ReadyCalls(conns, C, sortedUnused, sortedUsed) ==
  IF C < Len(conns)
  THEN LET unused == UnusedSlice(sortedUnused, C)
           used == UsedSlice(sortedUsed, unused)
       IN [i \in 1..Len(used) |-> <<used[i], 0>>] \o [i \in 1..Len(unused) |-> <<unused[i], 1>>]
  ELSE [i \in 1..Len(conns) |-> <<conns[i], Share(C, Len(conns))>>]

\* Connection.ready(count): the RDY count command handed to the connection
ConnectionReady(sent, h, count) == [sent EXCEPT ![h] = count]

\* Connection.ready(count) keeps the count in connection._ready
ReadyField(cr, h, count) == [cr EXCEPT ![h] = count]

RECURSIVE ApplySent(_, _)
ApplySent(sent, calls) ==
  IF calls = <<>> THEN sent
  ELSE ApplySent(ConnectionReady(sent, Head(calls)[1], Head(calls)[2]), Tail(calls))

RECURSIVE ApplyField(_, _)
ApplyField(cr, calls) ==
  IF calls = <<>> THEN cr
  ELSE ApplyField(ReadyField(cr, Head(calls)[1], Head(calls)[2]), Tail(calls))

\* Subscriber._distributeReady on the connection list conns with the fields
\* sent/cr/lm as they are when it starts, under concurrency C
DistributeReady(conns, sent, cr, lm, C) ==
  \E su \in SortResults(UnusedList(conns, cr), lm),
     sd \in SortResults(UsedList(conns, cr), lm) :
       LET calls == ReadyCalls(conns, C, su, sd) IN
         /\ rdy' = ApplySent(sent, calls)
         /\ cReady' = ApplyField(cr, calls)

\* Date.now() is monotone and _lastMessage is only ever compared (the sort
\* comparator), so time stamps are kept as dense ranks: the values a new stamp
\* can take relative to the existing ones are "the same millisecond as the
\* latest stamp" or "later".
Stamps(lm) == {lm[x] : x \in {y \in Hosts : lm[y] # Undef}}

Latest(lm) == IF Stamps(lm) = {} THEN 0 ELSE CHOOSE m \in Stamps(lm) : \A v \in Stamps(lm) : v <= m

Normalize(lm) ==
  [h \in Hosts |-> IF lm[h] = Undef THEN Undef
                   ELSE Cardinality({v \in Stamps(lm) : v < lm[h]})]

\* ------------------------------------------------------------------------
\* Subscriber: handlers
\* ------------------------------------------------------------------------
NoWait == [poll |-> 0, ready |-> 0]

\* the host of options.host/options.port in direct mode
DirectHost == 1

SubInit ==
  /\ subState = "Disconnected"
  /\ optConcurrency \in 1..MaxConcurrency
  /\ concurrency = optConcurrency
  /\ lookupMode \in BOOLEAN
  /\ connections = <<>>
  /\ cReady = [h \in Hosts |-> Undef]
  /\ rdy = [h \in Hosts |-> Undef]
  /\ lastMessage = [h \in Hosts |-> Undef]
  /\ started = FALSE
  /\ listeners = 0
  /\ awaitingStart = NoWait
  /\ resumedStart = 0
  /\ connectWait = "none"
  /\ pollTimer = FALSE
  /\ lookedUp = [l \in Lookups |-> [kind |-> "ok", producers |-> {}]]
  /\ warns = [l \in Lookups |-> 0]
  /\ removed = {}
  /\ subClose = "idle"
  /\ closeWaited = FALSE
  /\ closeFound = {}
  /\ closeRemoved = {}

\* Subscriber.connect(): in lookup mode _poll() runs up to its first await
\* (state Polling); in direct mode the single connection is created.
Connect ==
  /\ subState = "Disconnected"
  /\ IF lookupMode
     THEN /\ subState' = "Polling"
          /\ UNCHANGED connections
     ELSE /\ subState' = "Connecting"
          /\ connections' = <<DirectHost>>
  /\ connectWait' = "await"
  /\ UNCHANGED <<connVars, messageVars, waitVars, sockVars, libVars, pollVars, closeVars>>
  /\ UNCHANGED <<optConcurrency, concurrency, lookupMode, cReady, rdy, lastMessage, started,
                 listeners, awaitingStart, resumedStart, pollTimer>>

\* the 'newListener' handler for event 'message'
AddListener ==
  /\ listeners < MaxListeners
  /\ listeners' = listeners + 1
  /\ IF started
     THEN UNCHANGED <<started, awaitingStart, rdy, cReady>>
     ELSE IF subState # "Ready"
     THEN /\ awaitingStart' =
               IF lookupMode /\ subState # "Disconnected"
               THEN [awaitingStart EXCEPT !.poll = @ + 1]
               ELSE [awaitingStart EXCEPT !.ready = @ + 1]
          /\ UNCHANGED <<started, rdy, cReady>>
     ELSE /\ started' = TRUE
          /\ DistributeReady(connections, rdy, cReady, lastMessage, concurrency)
          /\ UNCHANGED awaitingStart
  /\ UNCHANGED <<connVars, messageVars, waitVars, sockVars, libVars, pollVars, closeVars>>
  /\ UNCHANGED <<subState, optConcurrency, concurrency, lookupMode, connections, lastMessage,
                 resumedStart, connectWait, pollTimer>>

\* continuation of the 'newListener' handler after its await
ResumeStart ==
  /\ resumedStart > 0
  /\ resumedStart' = resumedStart - 1
  /\ started' = TRUE
  /\ DistributeReady(connections, rdy, cReady, lastMessage, concurrency)
  /\ UNCHANGED <<connVars, messageVars, waitVars, sockVars, libVars, pollVars, closeVars>>
  /\ UNCHANGED <<subState, optConcurrency, concurrency, lookupMode, connections, lastMessage,
                 listeners, awaitingStart, connectWait, pollTimer>>

\* continuation of connect() after its await
ResumeConnect ==
  /\ connectWait = "resumed"
  /\ connectWait' = "done"
  /\ IF started
     THEN DistributeReady(connections, rdy, cReady, lastMessage, concurrency)
     ELSE UNCHANGED <<rdy, cReady>>
  /\ UNCHANGED <<connVars, messageVars, waitVars, sockVars, libVars, pollVars, closeVars>>
  /\ UNCHANGED <<subState, optConcurrency, concurrency, lookupMode, connections, lastMessage,
                 started, listeners, awaitingStart, resumedStart, pollTimer>>

\* the _pollTimer callback: _poll() up to its first await; a timer callback
\* runs after the continuation of a close() that the last poll resumed
PollBegin ==
  /\ pollTimer
  /\ subClose # "resumed"
  /\ pollTimer' = FALSE
  /\ subState' = "Polling"
  /\ UNCHANGED <<connVars, messageVars, waitVars, sockVars, libVars, pollVars, closeVars>>
  /\ UNCHANGED <<optConcurrency, concurrency, lookupMode, connections, cReady, rdy, lastMessage,
                 started, listeners, awaitingStart, resumedStart, connectWait>>

\* what a lookup URL answers to http.get: a 200 with a JSON body naming
\* producers, another status code, a body that is not JSON, or no answer
\* (transport error)
Replies ==
  {[kind |-> "ok", producers |-> P] : P \in SUBSET Hosts}
    \cup {[kind |-> k, producers |-> {}] : k \in {"status", "json", "error"}}

\* http.get(url) resolves (with the parsed body); it rejects otherwise
Resolves(reply) == reply.kind = "ok"

\* `desired` if the loop over the lookups ended at the first failure
DesiredUntilFailure(replies) ==
  UNION {replies[l].producers :
           l \in {k \in Lookups : \A j \in 1..k : Resolves(replies[j])}}

\* `desired` after the loop over the lookups: host:port of every producer of
\* every lookup that resolved
Desired(replies) ==
  UNION {replies[l].producers : l \in {k \in Lookups : Resolves(replies[k])}}

\* the connections that stay although the poll did not return them
KeptAll(conns, desired) == conns

\* the connections left by the removal loop, in the order of the Map
Kept(conns, desired) == Filter(conns, desired)

\* the rest of _poll(), the lookups having answered with `replies`; `added`
\* is the order in which the Set yields the new producers
PollFinish(replies, added) ==
  /\ subState = "Polling"
  /\ LET desired == Desired(replies)
         gone == Range(connections) \ Range(Kept(connections, desired))
         conns == Kept(connections, desired) \o added
         \* a removed connection is closed and dropped from the map
         drop(f) == [h \in Hosts |-> IF h \in gone THEN Undef ELSE f[h]]
     IN /\ connections' = conns
        /\ removed' = gone
        /\ lastMessage' = Normalize(drop(lastMessage))
        /\ IF started
           THEN DistributeReady(conns, drop(rdy), drop(cReady), Normalize(drop(lastMessage)),
                                concurrency)
           ELSE /\ rdy' = drop(rdy)
                /\ cReady' = drop(cReady)
  /\ lookedUp' = replies
  /\ warns' = [l \in Lookups |-> IF Resolves(replies[l]) THEN 0 ELSE 1]
  /\ pollTimer' = TRUE
  /\ subState' = "Ready"
  /\ awaitingStart' = [awaitingStart EXCEPT !.poll = 0]
  /\ resumedStart' = resumedStart + awaitingStart.poll
  /\ connectWait' = IF connectWait = "await" THEN "resumed" ELSE connectWait
  /\ subClose' = IF subClose = "awaitPoll" THEN "resumed" ELSE subClose
  /\ UNCHANGED <<connVars, messageVars, waitVars, sockVars, libVars, closeWaited, closeFound,
                 closeRemoved>>
  /\ UNCHANGED <<optConcurrency, concurrency, lookupMode, started, listeners>>

\* a poll completes, the lookups having answered with one of `answers`
PollWith(answers) ==
  \E replies \in answers :
    \E added \in Orderings(Desired(replies) \ Range(connections)) : PollFinish(replies, added)

\* every lookup answers 200, and only the first names producers
AnsweredByFirst ==
  {[l \in Lookups |-> [kind |-> "ok", producers |-> IF l = 1 THEN P ELSE {}]] :
     P \in SUBSET Hosts}

\* a poll completes with some set of producers
Poll == PollWith(AnsweredByFirst)

\* a connection emits 'ready' (its IDENTIFY was answered)
ConnReadyEvent(h) ==
  /\ h \in Range(connections)
  /\ subState' = IF lookupMode THEN subState ELSE "Ready"
  /\ awaitingStart' = [awaitingStart EXCEPT !.ready = 0]
  /\ resumedStart' = resumedStart + awaitingStart.ready
  /\ connectWait' = IF ~lookupMode /\ connectWait = "await" THEN "resumed" ELSE connectWait
  /\ UNCHANGED <<connVars, messageVars, waitVars, sockVars, libVars, pollVars, closeVars>>
  /\ UNCHANGED <<optConcurrency, concurrency, lookupMode, connections, cReady, rdy, lastMessage,
                 started, listeners, pollTimer>>

\* Subscriber.pause()
Pause ==
  /\ concurrency' = 0
  /\ DistributeReady(connections, rdy, cReady, lastMessage, 0)
  /\ UNCHANGED <<connVars, messageVars, waitVars, sockVars, libVars, pollVars, closeVars>>
  /\ UNCHANGED <<subState, optConcurrency, lookupMode, connections, lastMessage, started,
                 listeners, awaitingStart, resumedStart, connectWait, pollTimer>>

\* Subscriber.unpause()
Unpause ==
  /\ concurrency' = optConcurrency
  /\ DistributeReady(connections, rdy, cReady, lastMessage, optConcurrency)
  /\ UNCHANGED <<connVars, messageVars, waitVars, sockVars, libVars, pollVars, closeVars>>
  /\ UNCHANGED <<subState, optConcurrency, lookupMode, connections, lastMessage, started,
                 listeners, awaitingStart, resumedStart, connectWait, pollTimer>>

\* the connection's 'message' handler (connection._lastMessage = Date.now()):
\* a message arrives on a connection that was sent a positive RDY
OnMessage(h) ==
  /\ h \in Range(connections)
  /\ rdy[h] > 0
  /\ \E t \in {Latest(lastMessage), Latest(lastMessage) + 1} :
        lastMessage' = Normalize([lastMessage EXCEPT ![h] = t])
  /\ UNCHANGED <<connVars, messageVars, waitVars, sockVars, libVars, pollVars, closeVars>>
  /\ UNCHANGED <<subState, optConcurrency, concurrency, lookupMode, connections, cReady, rdy,
                 started, listeners, awaitingStart, resumedStart, connectWait, pollTimer>>

\* clearTimeout(this._pollTimer) left out
KeepPollTimer == UNCHANGED pollTimer

\* clearTimeout(this._pollTimer)
ClearPollTimer == pollTimer' = FALSE

\* close() from clearTimeout to the first connection.close() it awaits
CloseBegin ==
  /\ ClearPollTimer
  /\ subState' = "Closing"
  /\ subClose' = "closing"
  /\ closeFound' = Range(connections)
  /\ UNCHANGED closeRemoved

\* Subscriber.close() up to its first await: on pollComplete while a poll is
\* running, else on the close() of the first connection
SubscriberClose ==
  /\ subClose = "idle"
  /\ IF subState = "Polling"
     THEN /\ subClose' = "awaitPoll"
          /\ closeWaited' = TRUE
          /\ UNCHANGED <<subState, pollTimer, closeFound, closeRemoved>>
     ELSE CloseBegin /\ UNCHANGED closeWaited
  /\ UNCHANGED <<connVars, messageVars, waitVars, sockVars, libVars, pollVars>>
  /\ UNCHANGED <<optConcurrency, concurrency, lookupMode, connections, cReady, rdy, lastMessage,
                 started, listeners, awaitingStart, resumedStart, connectWait>>

\* continuation of close() after the pollComplete it waited for
SubscriberCloseResume ==
  /\ subClose = "resumed"
  /\ CloseBegin
  /\ UNCHANGED closeWaited
  /\ UNCHANGED <<connVars, messageVars, waitVars, sockVars, libVars, pollVars>>
  /\ UNCHANGED <<optConcurrency, concurrency, lookupMode, connections, cReady, rdy, lastMessage,
                 started, listeners, awaitingStart, resumedStart, connectWait>>

\* close(): the connection.close() it awaits has resolved; the connection is
\* deleted from the map and 'removed' is emitted; the loop goes on with the
\* next entry of the map, and close() resolves when there is none
SubscriberCloseNext ==
  /\ subClose = "closing"
  /\ IF connections = <<>>
     THEN /\ subClose' = "done"
          /\ UNCHANGED <<connections, cReady, rdy, lastMessage, closeRemoved>>
     ELSE LET h == Head(connections)
              drop(f) == [f EXCEPT ![h] = Undef]
          IN /\ connections' = Tail(connections)
             /\ closeRemoved' = closeRemoved \cup {h}
             /\ cReady' = drop(cReady)
             /\ rdy' = drop(rdy)
             /\ lastMessage' = Normalize(drop(lastMessage))
             /\ UNCHANGED subClose
  /\ UNCHANGED <<connVars, messageVars, waitVars, sockVars, libVars, pollVars>>
  /\ UNCHANGED <<subState, optConcurrency, concurrency, lookupMode, started, listeners,
                 awaitingStart, resumedStart, connectWait, pollTimer, closeWaited,
                 closeFound>>

\* ------------------------------------------------------------------------
\* Connection: envelopes and the command queue
\* ------------------------------------------------------------------------

\* createEnvelope('NOP', null, true) of the heartbeat reply
NOP == [id |-> 0, command |-> "NOP", arg |-> 0]

\* createEnvelope(command, data, skipPromise): publish (PUB/MPUB/DPUB) and
\* subscribe (SUB) create the promise, the other commands skip it
HasPromise(e) == e.command \in {"PUB", "SUB"}

\* Set.prototype.delete on the insertion-ordered queue
RECURSIVE Delete(_, _)
Delete(list, e) ==
  IF list = <<>> THEN <<>>
  ELSE IF Head(list) = e THEN Tail(list)
       ELSE <<Head(list)>> \o Delete(Tail(list), e)

\* a queue that takes the new envelope in front of the queued ones
EnqueueAtHead(e) ==
  /\ queue' = <<e>> \o queue
  /\ pulses' = pulses + 1

\* this.queue.add(envelope); this._pulse(): the envelope goes to the end of the
\* Set and one more callback is chained on _pulsing
Enqueue(e) ==
  /\ queue' = Append(queue, e)
  /\ pulses' = pulses + 1

\* no message was received, and nsqd holds nothing for the connection
NoMessages ==
  /\ inflight = [m \in MsgIds |-> 0]
  /\ timer = [d \in Deliveries |-> NoTimer]
  /\ resolved = {}
  /\ delivered = <<>>
  /\ srvSub = FALSE
  /\ srvRdy = 0
  /\ srvInflight = {}
  /\ incoming = <<>>

\* the constructor: state Connecting, socket.connect() under way
ConnectionInit ==
  /\ state = "Connecting"
  /\ socket = "connecting"
  /\ reconnectTimer = FALSE
  /\ connectAttempts = 0
  /\ subscribed = FALSE
  /\ queue = <<>>
  /\ envelope = 0
  /\ pulsingReady = FALSE
  /\ pulses = 0
  /\ running = FALSE
  /\ batch = <<>>
  /\ awaited = 0
  /\ nextId = 1
  /\ written = <<>>
  /\ unresolved = {}
  /\ identifies = 0
  /\ readyEmits = 0
  /\ closeAt = Undef
  /\ closeStage = "idle"
  /\ closeWait = {}
  /\ closedEmits = 0
  /\ sentRdy = 0
  /\ refused = 0
  /\ NoMessages

\* ------------------------------------------------------------------------
\* Connection: socket life cycle
\* ------------------------------------------------------------------------

\* No promise callback of _pulse, each() or close() is due.  Socket events and
\* timers are tasks of the event loop; it runs them only after the callbacks
\* that are due have all run.
MicrotasksIdle ==
  /\ ~(pulsingReady /\ ~running /\ pulses > 0)
  /\ ~(running /\ awaited = 0)
  /\ ~(closeAt = 0 /\ pulsingReady)
  /\ closeStage # "called"
  /\ ~(closeStage = "inflight" /\ closeWait \subseteq resolved)

\* nsqd drops what it holds for the TCP connection: the messages in flight go
\* back to the channel, what it had sent and was not received is lost
SessionEnds ==
  /\ srvSub' = FALSE
  /\ srvRdy' = 0
  /\ srvInflight' = {}
  /\ incoming' = <<>>

\* _reconnect(): the listeners are removed; unless the connection is Closed or
\* the attempts are used up, the reconnect timer is set
Reconnect ==
  /\ socket' = "down"
  /\ reconnectTimer' = IF state = "Closed" \/ connectAttempts + 1 >= MaxConnectAttempts
                       THEN reconnectTimer
                       ELSE TRUE

\* _identify(): throws unless the state is Connecting, else writes the magic
\* and IDENTIFY
Identify ==
  IF state = "Connecting"
  THEN /\ state' = "Identifying"
       /\ identifies' = identifies + 1
  ELSE UNCHANGED <<state, identifies>>

\* the socket's 'connect' handler
OnConnect ==
  /\ socket = "connecting"
  /\ MicrotasksIdle
  /\ identifies < MaxIdentifies
  /\ socket' = "open"
  /\ connectAttempts' = 0
  /\ Identify
  /\ UNCHANGED <<reconnectTimer, subscribed, queue, envelope, pulsingReady, pulses, running,
                 batch, awaited, nextId, written, unresolved, readyEmits, closeAt>>
  /\ UNCHANGED <<msgVars, srvVars, closeStage, closeWait, closedEmits, sentRdy>>
  /\ UNCHANGED <<subVars, messageVars, waitVars, sockVars, libVars, refused>>

\* 'error' while connecting: _reconnect(err)
OnConnectError ==
  /\ socket = "connecting"
  /\ MicrotasksIdle
  /\ Reconnect
  /\ UNCHANGED <<state, connectAttempts, subscribed, queue, envelope, pulsingReady, pulses,
                 running, batch, awaited, nextId, written, unresolved, identifies, readyEmits,
                 closeAt>>
  /\ UNCHANGED <<msgVars, srvVars, closeStage, closeWait, closedEmits, sentRdy>>
  /\ UNCHANGED <<subVars, messageVars, waitVars, sockVars, libVars, refused>>

\* 'close', 'end' or 'error' of the connected socket: _reconnect()
OnDisconnect ==
  /\ socket = "open"
  /\ MicrotasksIdle
  /\ Reconnect
  /\ SessionEnds
  /\ UNCHANGED <<state, connectAttempts, subscribed, queue, envelope, pulsingReady, pulses,
                 running, batch, awaited, nextId, written, unresolved, identifies, readyEmits,
                 closeAt>>
  /\ UNCHANGED <<msgVars, closeStage, closeWait, closedEmits, sentRdy>>
  /\ UNCHANGED <<subVars, messageVars, waitVars, sockVars, libVars, refused>>

\* a timer callback that connects again without touching the state
ReconnectTimerKeepsState ==
  /\ reconnectTimer
  /\ MicrotasksIdle
  /\ reconnectTimer' = FALSE
  /\ connectAttempts' = connectAttempts + 1
  /\ socket' = "connecting"
  /\ UNCHANGED <<state, subscribed, queue, envelope, pulsingReady, pulses, running, batch,
                 awaited, nextId, written, unresolved, identifies, readyEmits, closeAt>>
  /\ UNCHANGED <<msgVars, srvVars, closeStage, closeWait, closedEmits, sentRdy>>
  /\ UNCHANGED <<subVars, messageVars, waitVars, sockVars, libVars, refused>>

\* the setTimeout callback of _reconnect()
ReconnectTimer ==
  /\ reconnectTimer
  /\ MicrotasksIdle
  /\ reconnectTimer' = FALSE
  /\ connectAttempts' = connectAttempts + 1
  /\ state' = "Connecting"
  /\ socket' = "connecting"
  /\ UNCHANGED <<subscribed, queue, envelope, pulsingReady, pulses, running, batch, awaited,
                 nextId, written, unresolved, identifies, readyEmits, closeAt>>
  /\ UNCHANGED <<msgVars, srvVars, closeStage, closeWait, closedEmits, sentRdy>>
  /\ UNCHANGED <<subVars, messageVars, waitVars, sockVars, libVars, refused>>

\* ------------------------------------------------------------------------
\* Connection: the inflight map
\* ------------------------------------------------------------------------

\* the entries that are in the inflight map
InMap == {inflight[m] : m \in MsgIds} \ {0}

\* the timer callback of an entry and the has() branch of finish/requeue:
\* the entry's promise is resolved and the id is deleted from the map
Remove(m, d) ==
  /\ resolved' = resolved \cup {d}
  /\ inflight' = [inflight EXCEPT ![m] = 0]

\* the rest of finish(id) and requeue(id): nothing for an id that is not in
\* the map, else clearTimeout, resolve, delete
Finalize(m) ==
  IF inflight[m] = 0
  THEN UNCHANGED <<inflight, timer, resolved>>
  ELSE /\ timer' = [timer EXCEPT ![inflight[m]] = NoTimer]
       /\ Remove(m, inflight[m])

\* a touch that arms a timer for the entry last delivered under the id,
\* whether the id is in the map or not
RearmUnchecked(m) ==
  LET last == {d \in 1..Len(delivered) : delivered[d] = m} IN
    IF last = {}
    THEN UNCHANGED <<inflight, timer, resolved>>
    ELSE LET d == CHOOSE x \in last : \A y \in last : y <= x IN
           /\ timer' = [timer EXCEPT ![d] = IF @ = NoTimer THEN 0 ELSE @ + 1]
           /\ UNCHANGED <<inflight, resolved>>

\* the rest of touch(id): nothing for an id that is not in the map, else
\* clearTimeout and a new timer (timers are told apart by the number of
\* touchedAt that preceded them)
Rearm(m) ==
  IF inflight[m] = 0
  THEN UNCHANGED <<inflight, timer, resolved>>
  ELSE /\ timer' = [timer EXCEPT ![inflight[m]] = IF @ = NoTimer THEN 0 ELSE @ + 1]
       /\ UNCHANGED <<inflight, resolved>>

\* ------------------------------------------------------------------------
\* Connection: command methods
\* ------------------------------------------------------------------------

\* the common body of the command methods: createEnvelope, queue.add, _pulse
Submit(command, arg) ==
  /\ nextId <= (IF delivered = <<>> THEN MaxCmds ELSE 2 + MaxMsgCmds)
  /\ Enqueue([id |-> nextId, command |-> command, arg |-> arg])
  /\ nextId' = nextId + 1
  /\ UNCHANGED <<state, socket, reconnectTimer, connectAttempts, envelope, pulsingReady,
                 running, batch, awaited, written, unresolved, identifies, readyEmits, closeAt>>
  /\ UNCHANGED <<delivered, srvVars, closeStage, closeWait, closedEmits, sentRdy>>
  /\ UNCHANGED <<subVars, messageVars, waitVars, sockVars, libVars, refused>>

\* publish(topic, data, delay) without its check of data and delay
PublishUnchecked(multi, delayed) ==
  Submit("PUB", 0) /\ UNCHANGED <<subscribed, inflight, timer, resolved>>

\* publish(topic, data, delay), data an array (multi) or not, delay set or
\* not: a delayed multi publish returns a rejected promise; any other call
\* queues PUB, MPUB or DPUB (all three are "PUB" here) and calls _pulse()
Publish(multi, delayed) ==
  IF multi /\ delayed
  THEN /\ refused < MaxRefused
       /\ refused' = refused + 1
       /\ UNCHANGED <<state, socket, reconnectTimer, connectAttempts, subscribed, queue,
                      envelope, pulsingReady, pulses, running, batch, awaited, nextId, written,
                      unresolved, identifies, readyEmits, closeAt, closeStage, closeWait,
                      closedEmits, sentRdy, msgVars, srvVars>>
       /\ UNCHANGED <<subVars, messageVars, waitVars, sockVars, libVars>>
  ELSE Submit("PUB", 0) /\ UNCHANGED <<subscribed, inflight, timer, resolved>>

\* subscribe(topic, channel); a second call is rejected without a command
Subscribe ==
  /\ ~subscribed
  /\ subscribed' = TRUE
  /\ Submit("SUB", 0)
  /\ UNCHANGED <<inflight, timer, resolved>>

\* ready(count)
Ready(count) == Submit("RDY", count) /\ UNCHANGED <<subscribed, inflight, timer, resolved>>

\* finish(id)
Finish(m) == Submit("FIN", m) /\ Finalize(m) /\ UNCHANGED subscribed

\* requeue(id, delay)
Requeue(m) == Submit("REQ", m) /\ Finalize(m) /\ UNCHANGED subscribed

\* touch(id)
Touch(m) == Submit("TOUCH", m) /\ Rearm(m) /\ UNCHANGED subscribed

\* ------------------------------------------------------------------------
\* Connection: _pulse
\* ------------------------------------------------------------------------

\* nsqd takes a command written to the connected socket: SUB subscribes the
\* connection, RDY of a subscribed connection sets its count, FIN and REQ end
\* the flight of the message
ServerReceives(e) ==
  IF socket # "open" THEN UNCHANGED <<srvSub, srvRdy, srvInflight>>
  ELSE /\ srvSub' = (srvSub \/ e.command = "SUB")
       /\ srvRdy' = IF e.command = "RDY" /\ srvSub THEN e.arg ELSE srvRdy
       /\ srvInflight' = IF e.command \in {"FIN", "REQ"} THEN srvInflight \ {e.arg}
                         ELSE srvInflight

\* a callback chained by _pulse() starts: each() walks queue.values() and
\* chains one step per envelope that is in the queue now
PulseRun ==
  /\ pulsingReady
  /\ ~running
  /\ pulses > 0
  /\ pulses' = pulses - 1
  /\ running' = TRUE
  /\ batch' = queue
  /\ UNCHANGED <<state, socket, reconnectTimer, connectAttempts, subscribed, queue, envelope,
                 pulsingReady, awaited, nextId, written, unresolved, identifies, readyEmits,
                 closeAt>>
  /\ UNCHANGED <<msgVars, srvVars, closeStage, closeWait, closedEmits, sentRdy>>
  /\ UNCHANGED <<subVars, messageVars, waitVars, sockVars, libVars, refused>>

\* a step that writes the envelope and goes on without awaiting its completion
PulseItemNoAwait ==
  /\ running
  /\ batch # <<>>
  /\ awaited = 0
  /\ LET e == Head(batch) IN
       /\ batch' = Tail(batch)
       /\ queue' = Delete(queue, e)
       /\ written' = IF e = NOP THEN written ELSE Append(written, e.id)
       /\ ServerReceives(e)
       /\ sentRdy' = IF e.command = "RDY" THEN e.arg ELSE sentRdy
       /\ IF HasPromise(e)
          THEN /\ envelope' = e.id
               /\ unresolved' = unresolved \cup {e.id}
          ELSE UNCHANGED <<envelope, unresolved>>
       /\ UNCHANGED awaited
  /\ UNCHANGED <<state, socket, reconnectTimer, connectAttempts, subscribed, pulsingReady,
                 pulses, running, nextId, identifies, readyEmits, closeAt>>
  /\ UNCHANGED <<msgVars, incoming, closeStage, closeWait, closedEmits>>
  /\ UNCHANGED <<subVars, messageVars, waitVars, sockVars, libVars, refused>>

\* one step of each(): the envelope leaves the queue and is written; with a
\* promise it becomes _envelope and the chain awaits envelope.completed
PulseItem ==
  /\ running
  /\ batch # <<>>
  /\ awaited = 0
  /\ LET e == Head(batch) IN
       /\ batch' = Tail(batch)
       /\ queue' = Delete(queue, e)
       /\ written' = IF e = NOP THEN written ELSE Append(written, e.id)
       /\ ServerReceives(e)
       /\ sentRdy' = IF e.command = "RDY" THEN e.arg ELSE sentRdy
       /\ IF HasPromise(e)
          THEN /\ envelope' = e.id
               /\ awaited' = e.id
               /\ unresolved' = unresolved \cup {e.id}
          ELSE UNCHANGED <<envelope, awaited, unresolved>>
  /\ UNCHANGED <<state, socket, reconnectTimer, connectAttempts, subscribed, pulsingReady,
                 pulses, running, nextId, identifies, readyEmits, closeAt>>
  /\ UNCHANGED <<msgVars, incoming, closeStage, closeWait, closedEmits>>
  /\ UNCHANGED <<subVars, messageVars, waitVars, sockVars, libVars, refused>>

\* the each() chain of the running callback resolves
PulseEnd ==
  /\ running
  /\ batch = <<>>
  /\ awaited = 0
  /\ running' = FALSE
  /\ closeAt' = IF closeAt > 0 THEN closeAt - 1 ELSE closeAt
  /\ UNCHANGED <<state, socket, reconnectTimer, connectAttempts, subscribed, queue, envelope,
                 pulsingReady, pulses, batch, awaited, nextId, written, unresolved, identifies,
                 readyEmits>>
  /\ UNCHANGED <<msgVars, srvVars, closeStage, closeWait, closedEmits, sentRdy>>
  /\ UNCHANGED <<subVars, messageVars, waitVars, sockVars, libVars, refused>>

\* ------------------------------------------------------------------------
\* Connection: _processFrame
\* ------------------------------------------------------------------------

\* the waiter in _envelope is resolved or rejected, completed and forgotten
SettleWaiter ==
  IF envelope # 0
  THEN /\ unresolved' = unresolved \ {envelope}
       /\ awaited' = IF awaited = envelope THEN 0 ELSE awaited
       /\ envelope' = 0
  ELSE UNCHANGED <<unresolved, awaited, envelope>>

\* a RESPONSE frame other than a heartbeat
FrameResponse ==
  /\ socket = "open"
  /\ IF state = "Identifying"
     THEN /\ state' = "Ready"
          /\ readyEmits' = readyEmits + 1
          /\ pulsingReady' = TRUE
     ELSE UNCHANGED <<state, readyEmits, pulsingReady>>
  /\ SettleWaiter
  /\ UNCHANGED <<socket, reconnectTimer, connectAttempts, subscribed, queue, pulses, running,
                 batch, nextId, written, identifies, closeAt>>
  /\ UNCHANGED <<msgVars, srvVars, closeStage, closeWait, closedEmits, sentRdy>>
  /\ UNCHANGED <<subVars, messageVars, waitVars, sockVars, libVars, refused>>

\* a RESPONSE frame "_heartbeat_"
FrameHeartbeat ==
  /\ socket = "open"
  /\ pulses < MaxPulses
  /\ Enqueue(NOP)
  /\ UNCHANGED <<state, socket, reconnectTimer, connectAttempts, subscribed, envelope,
                 pulsingReady, running, batch, awaited, nextId, written, unresolved, identifies,
                 readyEmits, closeAt>>
  /\ UNCHANGED <<msgVars, srvVars, closeStage, closeWait, closedEmits, sentRdy>>
  /\ UNCHANGED <<subVars, messageVars, waitVars, sockVars, libVars, refused>>

\* an ERROR frame that rejects the waiter and leaves a connection that is
\* Identifying as it is
FrameErrorKeepsState ==
  /\ socket = "open"
  /\ SettleWaiter
  /\ UNCHANGED <<state, socket, reconnectTimer, connectAttempts, subscribed, queue,
                 pulsingReady, pulses, running, batch, nextId, written, identifies, readyEmits,
                 closeAt>>
  /\ UNCHANGED <<msgVars, srvVars, closeStage, closeWait, closedEmits, sentRdy>>
  /\ UNCHANGED <<subVars, messageVars, waitVars, sockVars, libVars, refused>>

\* an ERROR frame: while Identifying the connection is closed, the socket
\* destroyed (its 'close' runs _reconnect, which returns at Closed) and
\* 'closed' emitted; the waiter, if any, is rejected
FrameError ==
  /\ socket = "open"
  /\ IF state = "Identifying"
     THEN /\ state' = "Closed"
          /\ socket' = "down"
          /\ closedEmits' = closedEmits + 1
          /\ SessionEnds
     ELSE UNCHANGED <<state, socket, closedEmits, srvVars>>
  /\ SettleWaiter
  /\ UNCHANGED <<reconnectTimer, connectAttempts, subscribed, queue, pulsingReady, pulses,
                 running, batch, nextId, written, identifies, readyEmits, closeAt>>
  /\ UNCHANGED <<msgVars, closeStage, closeWait, sentRdy>>
  /\ UNCHANGED <<subVars, messageVars, waitVars, sockVars, libVars, refused>>

\* a MESSAGE frame: an entry with a new promise and a new timer is set in the
\* inflight map under the message id, then 'message' is emitted
FrameMessage ==
  /\ socket = "open"
  /\ MicrotasksIdle
  /\ incoming # <<>>
  /\ LET m == Head(incoming)
         d == Len(delivered) + 1 IN
       /\ delivered' = Append(delivered, m)
       /\ inflight' = [inflight EXCEPT ![m] = d]
       /\ timer' = [timer EXCEPT ![d] = 0]
  /\ incoming' = Tail(incoming)
  /\ UNCHANGED <<state, socket, reconnectTimer, connectAttempts, subscribed, queue, envelope,
                 pulsingReady, pulses, running, batch, awaited, nextId, written, unresolved,
                 identifies, readyEmits, closeAt>>
  /\ UNCHANGED <<resolved, srvSub, srvRdy, srvInflight, closeStage, closeWait, closedEmits, sentRdy>>
  /\ UNCHANGED <<subVars, messageVars, waitVars, sockVars, libVars, refused>>

\* the msg_timeout timer of entry d fires: its promise is resolved and the id
\* it was delivered under is deleted from the map
TimerFire(d) ==
  /\ timer[d] # NoTimer
  /\ MicrotasksIdle
  /\ timer' = [timer EXCEPT ![d] = NoTimer]
  /\ Remove(delivered[d], d)
  /\ UNCHANGED <<state, socket, reconnectTimer, connectAttempts, subscribed, queue, envelope,
                 pulsingReady, pulses, running, batch, awaited, nextId, written, unresolved,
                 identifies, readyEmits, closeAt>>
  /\ UNCHANGED <<delivered, srvVars, closeStage, closeWait, closedEmits, sentRdy>>
  /\ UNCHANGED <<subVars, messageVars, waitVars, sockVars, libVars, refused>>

\* ------------------------------------------------------------------------
\* nsqd, as far as the connection can tell
\* ------------------------------------------------------------------------

\* nsqd sends a message of the channel to the subscribed connection while it
\* has fewer in flight there than the RDY count
SrvSend(m) ==
  /\ socket = "open"
  /\ srvSub
  /\ m \notin srvInflight
  /\ Cardinality(srvInflight) < srvRdy
  /\ Len(delivered) + Len(incoming) < MaxDeliveries
  /\ srvInflight' = srvInflight \cup {m}
  /\ incoming' = Append(incoming, m)
  /\ UNCHANGED <<srvSub, srvRdy, msgVars, closeStage, closeWait, closedEmits, sentRdy>>
  /\ UNCHANGED <<state, socket, reconnectTimer, connectAttempts, subscribed, queue, envelope,
                 pulsingReady, pulses, running, batch, awaited, nextId, written, unresolved,
                 identifies, readyEmits, closeAt>>
  /\ UNCHANGED <<subVars, messageVars, waitVars, sockVars, libVars, refused>>

\* the message timeout of nsqd: a message that was received and neither
\* finished nor requeued in time goes back to the channel
SrvTimeout(m) ==
  /\ m \in srvInflight
  /\ \A i \in 1..Len(incoming) : incoming[i] # m
  /\ srvInflight' = srvInflight \ {m}
  /\ UNCHANGED <<srvSub, srvRdy, incoming, msgVars, closeStage, closeWait, closedEmits, sentRdy>>
  /\ UNCHANGED <<state, socket, reconnectTimer, connectAttempts, subscribed, queue, envelope,
                 pulsingReady, pulses, running, batch, awaited, nextId, written, unresolved,
                 identifies, readyEmits, closeAt>>
  /\ UNCHANGED <<subVars, messageVars, waitVars, sockVars, libVars, refused>>

\* ------------------------------------------------------------------------
\* Connection: close
\* ------------------------------------------------------------------------

\* closeAt once the cleanup of close() has run
Done == -2

\* close(): a subscribed connection queues RDY 0 and chains the wait for the
\* inflight promises; any other awaits _pulsing as it is now
Close ==
  /\ closeAt = Undef
  /\ closeStage = "idle"
  /\ IF subscribed
     THEN /\ Enqueue([id |-> nextId, command |-> "RDY", arg |-> 0])
          /\ nextId' = nextId + 1
          /\ closeStage' = "called"
          /\ UNCHANGED closeAt
     ELSE /\ closeAt' = pulses + (IF running THEN 1 ELSE 0)
          /\ closeStage' = "pulsing"
          /\ UNCHANGED <<queue, pulses, nextId>>
  /\ UNCHANGED <<state, socket, reconnectTimer, connectAttempts, subscribed, envelope,
                 pulsingReady, running, batch, awaited, written, unresolved, identifies,
                 readyEmits>>
  /\ UNCHANGED <<msgVars, srvVars, closeWait, closedEmits, sentRdy>>
  /\ UNCHANGED <<subVars, messageVars, waitVars, sockVars, libVars, refused>>

\* close(), first callback: Promise.all over the promises of the entries that
\* are in the inflight map now
CloseSnapshot ==
  /\ closeStage = "called"
  /\ closeWait' = InMap
  /\ closeStage' = "inflight"
  /\ UNCHANGED <<state, socket, reconnectTimer, connectAttempts, subscribed, queue, envelope,
                 pulsingReady, pulses, running, batch, awaited, nextId, written, unresolved,
                 identifies, readyEmits, closeAt>>
  /\ UNCHANGED <<msgVars, srvVars, closedEmits, sentRdy>>
  /\ UNCHANGED <<subVars, messageVars, waitVars, sockVars, libVars, refused>>

\* close(), second callback, once those promises are resolved: _pulsing as it
\* is now is awaited
CloseAwaitPulsing ==
  /\ closeStage = "inflight"
  /\ closeWait \subseteq resolved
  /\ closeAt' = pulses + (IF running THEN 1 ELSE 0)
  /\ closeStage' = "pulsing"
  /\ UNCHANGED <<state, socket, reconnectTimer, connectAttempts, subscribed, queue, envelope,
                 pulsingReady, pulses, running, batch, awaited, nextId, written, unresolved,
                 identifies, readyEmits>>
  /\ UNCHANGED <<msgVars, srvVars, closeWait, closedEmits, sentRdy>>
  /\ UNCHANGED <<subVars, messageVars, waitVars, sockVars, libVars, refused>>

\* the continuation of close(): state Closed, socket.destroy(), 'closed'
CloseRun ==
  /\ closeAt = 0
  /\ pulsingReady
  /\ closeAt' = Done
  /\ state' = "Closed"
  /\ socket' = "down"
  /\ closedEmits' = closedEmits + 1
  /\ SessionEnds
  /\ UNCHANGED <<reconnectTimer, connectAttempts, subscribed, queue, envelope, pulsingReady,
                 pulses, running, batch, awaited, nextId, written, unresolved, identifies,
                 readyEmits>>
  /\ UNCHANGED <<msgVars, closeStage, closeWait, sentRdy>>
  /\ UNCHANGED <<subVars, messageVars, waitVars, sockVars, libVars, refused>>

\* ------------------------------------------------------------------------
\* Connection of unnamed/part_005: the waiting list and ERROR frames
\* ------------------------------------------------------------------------
\* This Connection chains its commands on the promise `sending` (here: queue,
\* the sends chained and not yet run; awaited, the envelope whose promise the
\* chain waits for) and keeps the envelopes that need a response in `waiting`.
\* IDENTIFY is envelope 0.  A socket after socket.end() is "ended".

ErrorCodes == {"E_INVALID", "E_BAD_TOPIC", "E_REQ_FAILED", "E_FIN_FAILED", "E_TOUCH_FAILED"}

\* the codes after which _processFrame leaves the socket as it is
NonFatal == {"E_REQ_FAILED", "E_FIN_FAILED", "E_TOUCH_FAILED"}

\* what none of the steps of this Connection changes
unusedVars == <<refused, envelope, pulses, running, batch, closeAt, closeStage, closeWait,
                closedEmits, sentRdy, msgVars, srvVars>>

\* the 'connect' handler: _identify() sends IDENTIFY at once, not through the
\* chain, and its envelope joins waiting
SocketConnect ==
  /\ socket = "connecting"
  /\ identifies < MaxIdentifies
  /\ socket' = "open"
  /\ state' = "Identifying"
  /\ identifies' = identifies + 1
  /\ waiting' = Append(waiting, 0)
  /\ sentCmds' = Append(sentCmds, [id |-> 0, command |-> "IDENTIFY", arg |-> 0])
  /\ UNCHANGED <<reconnectTimer, connectAttempts, subscribed, queue, pulsingReady, awaited,
                 nextId, written, unresolved, readyEmits, rejected, resubVars, inFlight>>
  /\ UNCHANGED <<unusedVars, subVars, messageVars, sockVars, libVars>>

\* _reconnect(), from 'error', 'end' or 'close' of the socket; what nsqd had
\* not read or the socket had not delivered is gone with the socket
SocketClose ==
  /\ socket \in {"connecting", "open", "ended"}
  /\ socket' = "down"
  /\ IF state = "Closed" \/ connectAttempts + 1 >= MaxConnectAttempts
     THEN UNCHANGED <<state, reconnectTimer>>
     ELSE /\ state' = "Reconnecting"
          /\ reconnectTimer' = TRUE
  /\ sentCmds' = <<>>
  /\ inFlight' = <<>>
  /\ UNCHANGED <<connectAttempts, subscribed, queue, pulsingReady, awaited, nextId, written,
                 unresolved, identifies, readyEmits, waiting, rejected, resubVars>>
  /\ UNCHANGED <<unusedVars, subVars, messageVars, sockVars, libVars>>

\* the setTimeout callback of _reconnect(): a subscribed connection registers
\* the once('ready') handler that subscribes again, and forgets that it is
\* subscribed
ReconnectTimeout ==
  /\ reconnectTimer
  /\ reconnectTimer' = FALSE
  /\ IF state = "Reconnecting"
     THEN /\ connectAttempts' = connectAttempts + 1
          /\ state' = "Connecting"
          /\ socket' = "connecting"
          /\ resub' = (resub \/ subscribed)
          /\ subscribed' = FALSE
     ELSE UNCHANGED <<connectAttempts, state, socket, resub, subscribed>>
  /\ UNCHANGED <<queue, pulsingReady, awaited, nextId, written, unresolved, identifies,
                 readyEmits, waiting, rejected, readyCount, resubSub, resubRdy, outageCmds,
                 afterError, lost>>
  /\ UNCHANGED <<unusedVars, subVars, messageVars, sockVars, libVars, replyVars>>

\* the connection was Ready and is not now: it waits for the reconnect timer,
\* the connect or the answer to IDENTIFY
Outage == readyEmits > 0 /\ state \in {"Reconnecting", "Connecting", "Identifying"}

\* one more send chained on `sending` by a command method of the application
Chain(command, arg) ==
  /\ nextId <= MaxCmds
  /\ queue' = Append(queue, [id |-> nextId, command |-> command, arg |-> arg])
  /\ nextId' = nextId + 1
  /\ outageCmds' = IF Outage THEN outageCmds \cup {nextId} ELSE outageCmds
  /\ afterError' = IF rejected \ {0} # {} THEN afterError \cup {nextId} ELSE afterError
  /\ UNCHANGED <<state, socket, reconnectTimer, connectAttempts, pulsingReady, awaited, written,
                 unresolved, identifies, readyEmits, waiting, rejected, resub, resubSub,
                 resubRdy, lost>>
  /\ UNCHANGED <<unusedVars, subVars, messageVars, sockVars, libVars, replyVars>>

\* _send(command, payload, needsResponse): publish needs a response; finish,
\* requeue and touch do not
Send(needsResponse) ==
  /\ Chain(IF needsResponse THEN "PUB" ELSE "FIN", 0)
  /\ UNCHANGED <<subscribed, readyCount>>

\* subscribe(topic, channel) by the application, once
SendSubscribe ==
  /\ ~subscribed
  /\ ~resub
  /\ resubSub = 0
  /\ subscribed' = TRUE
  /\ Chain("SUB", 0)
  /\ UNCHANGED readyCount

\* ready(count) by the application
SendReady(count) ==
  /\ readyCount' = count
  /\ Chain("RDY", count)
  /\ UNCHANGED subscribed

\* the next send of the chain runs: the command is written; an envelope that
\* needs a response joins waiting and the chain waits for its promise
SendRun ==
  /\ pulsingReady
  /\ awaited = 0
  /\ queue # <<>>
  /\ LET e == Head(queue) IN
       /\ queue' = Tail(queue)
       /\ written' = Append(written, e.id)
       /\ lost' = IF socket = "open" THEN lost ELSE lost \cup {e.id}
       /\ sentCmds' = IF socket = "open" THEN Append(sentCmds, e) ELSE sentCmds
       /\ IF HasPromise(e)
          THEN /\ waiting' = Append(waiting, e.id)
               /\ unresolved' = unresolved \cup {e.id}
               /\ awaited' = e.id
          ELSE UNCHANGED <<waiting, unresolved, awaited>>
  /\ UNCHANGED <<state, socket, reconnectTimer, connectAttempts, subscribed, pulsingReady,
                 nextId, identifies, readyEmits, rejected, readyCount, resub, resubSub,
                 resubRdy, outageCmds, afterError, inFlight>>
  /\ UNCHANGED <<unusedVars, subVars, messageVars, sockVars, libVars>>

\* _dispatchResult: the first envelope of waiting is resolved.  Resolving
\* IDENTIFY makes an Identifying connection Ready and emits 'ready', whose
\* once handler, if registered, calls subscribe(); resolving the SUB of that
\* handler calls ready(readyCount).
DispatchResult ==
  IF waiting = <<>>
  THEN UNCHANGED <<waiting, unresolved, awaited, state, readyEmits, pulsingReady, subscribed,
                   queue, nextId, resub, resubSub, resubRdy>>
  ELSE /\ waiting' = Tail(waiting)
       /\ unresolved' = unresolved \ {Head(waiting)}
       /\ awaited' = IF awaited = Head(waiting) THEN 0 ELSE awaited
       /\ IF Head(waiting) = 0
          THEN /\ state' = "Ready"
               /\ readyEmits' = readyEmits + 1
               /\ pulsingReady' = TRUE
          ELSE UNCHANGED <<state, readyEmits, pulsingReady>>
       /\ IF Head(waiting) = 0 /\ resub
          THEN /\ resub' = FALSE
               /\ subscribed' = TRUE
               /\ resubSub' = nextId
               /\ queue' = Append(queue, [id |-> nextId, command |-> "SUB", arg |-> 0])
               /\ nextId' = nextId + 1
               /\ UNCHANGED resubRdy
          ELSE IF Head(waiting) # 0 /\ Head(waiting) = resubSub /\ resubRdy = 0
          THEN /\ resubRdy' = nextId
               /\ queue' = Append(queue, [id |-> nextId, command |-> "RDY", arg |-> readyCount])
               /\ nextId' = nextId + 1
               /\ UNCHANGED <<resub, subscribed, resubSub>>
          ELSE UNCHANGED <<resub, subscribed, resubSub, resubRdy, queue, nextId>>

\* a RESPONSE frame other than a heartbeat
ResponseFrame ==
  /\ socket \in {"open", "ended"}
  /\ DispatchResult
  /\ UNCHANGED <<socket, reconnectTimer, connectAttempts, written, identifies, rejected,
                 readyCount, outageCmds, afterError, lost>>
  /\ UNCHANGED <<unusedVars, subVars, messageVars, sockVars, libVars, replyVars>>

\* _dispatchError: the first envelope of waiting is rejected (the chain goes
\* on after a rejection as after a response)
DispatchError ==
  IF waiting = <<>>
  THEN UNCHANGED <<waiting, rejected, unresolved, awaited>>
  ELSE /\ waiting' = Tail(waiting)
       /\ rejected' = rejected \cup {Head(waiting)}
       /\ unresolved' = unresolved \ {Head(waiting)}
       /\ awaited' = IF awaited = Head(waiting) THEN 0 ELSE awaited

\* an ERROR frame after which the socket is ended whatever the code
ErrorFrameAlwaysEnds(code) ==
  /\ socket \in {"open", "ended"}
  /\ DispatchError
  /\ socket' = "ended"
  /\ UNCHANGED <<state, reconnectTimer, connectAttempts, subscribed, queue, pulsingReady,
                 nextId, written, identifies, readyEmits, resubVars>>
  /\ UNCHANGED <<unusedVars, subVars, messageVars, sockVars, libVars, replyVars>>

\* an ERROR frame: 'error-response' rejects the first waiter; the socket is
\* ended unless the code is one of the three
ErrorFrame(code) ==
  /\ socket \in {"open", "ended"}
  /\ DispatchError
  /\ socket' = IF code \notin NonFatal THEN "ended" ELSE socket
  /\ UNCHANGED <<state, reconnectTimer, connectAttempts, subscribed, queue, pulsingReady,
                 nextId, written, identifies, readyEmits, resubVars>>
  /\ UNCHANGED <<unusedVars, subVars, messageVars, sockVars, libVars, replyVars>>

\* nsqd answers IDENTIFY and the commands sent with needsResponse
Answered(e) == HasPromise(e) \/ e.command = "IDENTIFY"

\* what nsqd answers to a command: OK or an error that ends the session to a
\* command with a response; nothing, or an error, to the others
RepliesTo(e) ==
  IF Answered(e)
  THEN {[ok |-> TRUE, code |-> "OK", cause |-> e.id]}
         \cup {[ok |-> FALSE, code |-> c, cause |-> e.id] : c \in ErrorCodes \ NonFatal}
  ELSE {[ok |-> FALSE, code |-> c, cause |-> e.id] : c \in NonFatal \cup {"E_INVALID"}}

\* nsqd reads the next command and executes it without a reply
ServerExecutes ==
  /\ socket = "open"
  /\ sentCmds # <<>>
  /\ ~Answered(Head(sentCmds))
  /\ sentCmds' = Tail(sentCmds)
  /\ UNCHANGED inFlight
  /\ UNCHANGED <<state, socket, reconnectTimer, connectAttempts, subscribed, queue,
                 pulsingReady, awaited, nextId, written, unresolved, identifies, readyEmits,
                 waiting, rejected, resubVars>>
  /\ UNCHANGED <<unusedVars, subVars, messageVars, sockVars, libVars>>

\* nsqd reads the next command and sends a frame in reply
ServerReplies ==
  /\ socket = "open"
  /\ sentCmds # <<>>
  /\ sentCmds' = Tail(sentCmds)
  /\ \E reply \in RepliesTo(Head(sentCmds)) : inFlight' = Append(inFlight, reply)
  /\ UNCHANGED <<state, socket, reconnectTimer, connectAttempts, subscribed, queue,
                 pulsingReady, awaited, nextId, written, unresolved, identifies, readyEmits,
                 waiting, rejected, resubVars>>
  /\ UNCHANGED <<unusedVars, subVars, messageVars, sockVars, libVars>>

\* the response resolves the envelope of IDENTIFY and is not the answer to
\* IDENTIFY: JSON.parse(response) throws in the then() of _identify, whose
\* catch runs as after a rejection
ParseFails(frame) == waiting # <<>> /\ Head(waiting) = 0 /\ frame.cause # 0

\* _processFrame for the next frame of nsqd: a response goes to
\* _dispatchResult, an error to _dispatchError, and the socket is ended
\* unless the code is one of the three
FrameArrives ==
  /\ socket \in {"open", "ended"}
  /\ inFlight # <<>>
  /\ inFlight' = Tail(inFlight)
  /\ IF Head(inFlight).ok /\ ~ParseFails(Head(inFlight))
     THEN /\ DispatchResult
          /\ UNCHANGED <<socket, rejected>>
     ELSE IF Head(inFlight).ok
     THEN /\ DispatchError
          /\ UNCHANGED <<socket, state, readyEmits, pulsingReady, subscribed, queue, nextId,
                         resub, resubSub, resubRdy>>
     ELSE /\ DispatchError
          /\ socket' = IF Head(inFlight).code \notin NonFatal THEN "ended" ELSE socket
          /\ UNCHANGED <<state, readyEmits, pulsingReady, subscribed, queue, nextId, resub,
                         resubSub, resubRdy>>
  /\ UNCHANGED <<reconnectTimer, connectAttempts, written, identifies, readyCount, outageCmds,
                 afterError, lost, sentCmds>>
  /\ UNCHANGED <<unusedVars, subVars, messageVars, sockVars, libVars>>

\* the catch of _identify(), after IDENTIFY was rejected: state Closed,
\* socket.end()
IdentifyRejected ==
  /\ 0 \in rejected
  /\ rejected' = rejected \ {0}
  /\ state' = "Closed"
  /\ socket' = IF socket = "open" THEN "ended" ELSE socket
  /\ UNCHANGED <<reconnectTimer, connectAttempts, subscribed, queue, pulsingReady, awaited,
                 nextId, written, unresolved, identifies, readyEmits, waiting, resubVars>>
  /\ UNCHANGED <<unusedVars, subVars, messageVars, sockVars, libVars, replyVars>>

\* ------------------------------------------------------------------------
\* ReconnectingSocket (lib/socket.js)
\* ------------------------------------------------------------------------

Events == {"disconnect", "error", "failed", "reconnectAttempt", "reconnect"}

Emit(emits, event) == [emits EXCEPT ![event] = @ + 1]

\* no ReconnectingSocket was constructed
SockIdle ==
  /\ sock = "closed"
  /\ maxConnectAttempts = 1
  /\ reconnectDelayFactor = 1
  /\ maxReconnectDelay = 1
  /\ sockAttempts = 0
  /\ retryTimer = NoTimer
  /\ finished = FALSE
  /\ closeListeners = {}
  /\ reconnectArmed = FALSE
  /\ ended = FALSE
  /\ sockConnects = 0
  /\ sockEmits = [e \in Events |-> 0]

\* the constructor, and the first connect() by the owner of the socket
SockInit ==
  /\ sock = "connecting"
  /\ maxConnectAttempts \in 1..MaxSockAttempts
  /\ reconnectDelayFactor \in 1..MaxDelayFactor
  /\ maxReconnectDelay \in 1..MaxMaxDelay
  /\ sockAttempts = 0
  /\ retryTimer = NoTimer
  /\ finished = FALSE
  /\ closeListeners = {"_reconnect"}
  /\ reconnectArmed = FALSE
  /\ ended = FALSE
  /\ sockConnects = 0
  /\ sockEmits = [e \in Events |-> 0]

\* _disableReconnects(retrying): the 'close' listeners it leaves (its
\* clearTimeout is in the actions that call it)
DisableReconnects(retrying) ==
  (closeListeners \ {"_reconnect"}) \cup (IF retrying THEN {} ELSE {"_disconnect"})

\* the delay of the retry timer without the cap of maxReconnectDelay
RetryDelayUncapped(a) == a * reconnectDelayFactor

\* the delay given to setTimeout in _reconnect()
RetryDelay(a) == Min(a * reconnectDelayFactor, maxReconnectDelay)

\* _reconnect(), the 'close' listener while reconnects are enabled
SockReconnect ==
  /\ closeListeners' = DisableReconnects(TRUE)
  /\ IF sockAttempts + 1 >= maxConnectAttempts
     THEN /\ sockEmits' = Emit(Emit(Emit(sockEmits, "disconnect"), "error"), "failed")
          /\ finished' = TRUE
          /\ retryTimer' = NoTimer
     ELSE /\ sockEmits' = Emit(sockEmits, "disconnect")
          /\ retryTimer' = RetryDelay(sockAttempts)
          /\ UNCHANGED finished

\* the socket emits 'close' (the connection failed, broke, or was ended by
\* both sides); the listeners _reconnect and _disconnect are never both
\* registered
SockClosed ==
  /\ sock \in {"connecting", "open", "ending"}
  /\ sock' = "closed"
  /\ IF "_reconnect" \in closeListeners
     THEN SockReconnect
     ELSE /\ sockEmits' = IF "_disconnect" \in closeListeners
                          THEN Emit(sockEmits, "disconnect")
                          ELSE sockEmits
          /\ UNCHANGED <<closeListeners, finished, retryTimer>>
  /\ UNCHANGED <<maxConnectAttempts, reconnectDelayFactor, maxReconnectDelay, sockAttempts,
                 reconnectArmed, ended, sockConnects>>
  /\ UNCHANGED <<subVars, connVars, messageVars, waitVars, libVars>>

\* the callback of the retry timer
RetryTimeout ==
  /\ retryTimer # NoTimer
  /\ retryTimer' = NoTimer
  /\ sockAttempts' = sockAttempts + 1
  /\ closeListeners' = (closeListeners \ {"_disconnect"}) \cup {"_reconnect"}
  /\ reconnectArmed' = TRUE
  /\ sockEmits' = Emit(sockEmits, "reconnectAttempt")
  /\ sockConnects' = sockConnects + 1
  /\ sock' = "connecting"
  /\ UNCHANGED <<maxConnectAttempts, reconnectDelayFactor, maxReconnectDelay, finished, ended>>
  /\ UNCHANGED <<subVars, connVars, messageVars, waitVars, libVars>>

\* the socket emits 'connect'; after a retry _emitReconnect() is its listener.
\* A socket that was ended while connecting sends its FIN now.
SockConnected ==
  /\ sock = "connecting"
  /\ sock' = IF ended THEN "ending" ELSE "open"
  /\ IF reconnectArmed
     THEN /\ sockEmits' = Emit(sockEmits, "reconnect")
          /\ reconnectArmed' = FALSE
     ELSE UNCHANGED <<sockEmits, reconnectArmed>>
  /\ UNCHANGED <<maxConnectAttempts, reconnectDelayFactor, maxReconnectDelay, sockAttempts,
                 retryTimer, finished, closeListeners, ended, sockConnects>>
  /\ UNCHANGED <<subVars, connVars, messageVars, waitVars, libVars>>

\* end(): reconnects are disabled, the retry timer is cleared, the socket is
\* half-closed
SockEnd ==
  /\ ~ended
  /\ ended' = TRUE
  /\ closeListeners' = DisableReconnects(FALSE)
  /\ retryTimer' = NoTimer
  /\ finished' = TRUE
  /\ sock' = IF sock = "open" THEN "ending" ELSE sock
  /\ UNCHANGED <<maxConnectAttempts, reconnectDelayFactor, maxReconnectDelay, sockAttempts,
                 reconnectArmed, sockConnects, sockEmits>>
  /\ UNCHANGED <<subVars, connVars, messageVars, waitVars, libVars>>

\* ------------------------------------------------------------------------
\* Discoverer (lib/discoverer.js 176-316)
\* ------------------------------------------------------------------------

\* a JavaScript number as a fraction; den = 0 stands for Infinity (num > 0)
\* and -Infinity (num < 0)
Frac(n, d) == [num |-> n, den |-> d]

\* a > b
FracGt(a, b) == a.num * b.den > b.num * a.den

\* a - b
FracSub(a, b) == Frac(a.num * b.den - b.num * a.den, a.den * b.den)

IsInteger(a) == a.den # 0 /\ a.num % a.den = 0

\* the value of a fraction that is an integer
IntegerOf(a) == a.num \div a.den

\* no Discoverer was constructed
DiscIdle ==
  /\ dConcurrency = 1
  /\ dSize = 0
  /\ dCounts = <<>>

\* the constructor, with any options.concurrency
DiscovererInit ==
  /\ dConcurrency \in 1..MaxDiscConcurrency
  /\ dSize = 0
  /\ dCounts = <<>>

\* discover() has added and removed connections
Discover ==
  /\ \E n \in 0..MaxDiscConnections : n # dSize /\ dSize' = n
  /\ UNCHANGED <<dConcurrency, dCounts>>
  /\ UNCHANGED <<subVars, connVars, messageVars, waitVars, sockVars, codecVars, queueVars,
                 squeakyVars>>

\* const split = (concurrency - remainder) / (connections.size - 1)
Split(C, N) == Frac(C - (C % N), N - 1)

\* the loop of ready() over n more connections: each is passed
\* wanted > split ? split : wanted, and wanted -= split
RECURSIVE ReadyLoop(_, _, _)
ReadyLoop(wanted, split, n) ==
  IF n = 0
  THEN <<>>
  ELSE <<IF FracGt(wanted, split) THEN split ELSE wanted>>
         \o ReadyLoop(FracSub(wanted, split), split, n - 1)

\* Discoverer.ready()
DiscovererReady ==
  /\ dCounts' = IF dSize = 0
                THEN <<>>  \* remainder and split are NaN, the loop has nothing to visit
                ELSE ReadyLoop(Frac(dConcurrency, 1), Split(dConcurrency, dSize), dSize)
  /\ dCounts' # dCounts
  /\ UNCHANGED <<dConcurrency, dSize>>
  /\ UNCHANGED <<subVars, connVars, messageVars, waitVars, sockVars, codecVars, queueVars,
                 squeakyVars>>

\* ------------------------------------------------------------------------
\* The frame decoders: Connection._receive (lib/connection.js 140-163),
\* _receive/_consumeFrame (unnamed/part_005 163-191), decodeFrames
\* (lib/each.js 102-126)
\* ------------------------------------------------------------------------

\* the frame types of the protocol: response, error, message
FrameTypes == 0..2

\* the byte the frame bodies are made of
BodyByte == 8

\* Buffer.slice(from, to) and Buffer.slice(from), on a sequence of bytes
BufSlice(buf, from, to) == SubSeq(buf, from + 1, Min(to, Len(buf)))

BufFrom(buf, from) == SubSeq(buf, from + 1, Len(buf))

\* Buffer.readInt32BE(offset): four bytes, big endian, two's complement
ReadInt32BE(buf, offset) ==
  LET b0 == buf[offset + 1]
      b1 == buf[offset + 2]
      b2 == buf[offset + 3]
      b3 == buf[offset + 4]
  IN (IF b0 >= 128 THEN b0 - 256 ELSE b0) * 16777216 + b1 * 65536 + b2 * 256 + b3

\* the four bytes ReadInt32BE reads back as n, for 0 <= n < 2^31
Int32BE(n) == <<(n \div 16777216) % 256, (n \div 65536) % 256, (n \div 256) % 256, n % 256>>

\* a frame on the wire: size of what follows, type, body
FrameBytes(f) == Int32BE(4 + Len(f.data)) \o Int32BE(f.type) \o f.data

RECURSIVE StreamBytes(_)
StreamBytes(fs) == IF fs = <<>> THEN <<>> ELSE FrameBytes(Head(fs)) \o StreamBytes(Tail(fs))

\* the well-formed frames nsqd may write
Frame == {[type |-> t, data |-> [i \in 1..n |-> BodyByte]] : t \in FrameTypes, n \in 0..MaxBody}

RECURSIVE FrameSeqs(_)
FrameSeqs(n) ==
  IF n = 0 THEN {<<>>} ELSE {<<f>> \o fs : f \in Frame, fs \in FrameSeqs(n - 1)}

\* the chunk replaces what was kept
AccumulateDropping(buf, chunk) == chunk

\* this._buffer.byteLength ? Buffer.concat([this._buffer, data]) : data
Accumulate(buf, chunk) == IF Len(buf) # 0 THEN buf \o chunk ELSE chunk

\* the while loop of Connection._receive (lib/connection.js), from the
\* buffer `buf`, `out` being the frames processed so far
RECURSIVE ReceiveLoop(_, _)
ReceiveLoop(buf, out) ==
  IF Len(buf) = 0 THEN [frames |-> out, buffer |-> buf]
  ELSE IF Len(buf) < 4 THEN [frames |-> out, buffer |-> buf]
  ELSE LET frameSize == 4 + ReadInt32BE(buf, 0)
       IN IF Len(buf) < frameSize THEN [frames |-> out, buffer |-> buf]
          ELSE LET frameType == ReadInt32BE(buf, 4)
                   frameData == BufSlice(buf, 8, frameSize)
               IN ReceiveLoop(BufFrom(buf, frameSize),
                              Append(out, [type |-> frameType, data |-> frameData]))

\* _receive and _consumeFrame of unnamed/part_005: frames are consumed while
\* _consumeFrame returns one
RECURSIVE ConsumeLoop(_, _)
ConsumeLoop(buf, out) ==
  IF Len(buf) < 4 THEN [frames |-> out, buffer |-> buf]
  ELSE LET size == 4 + ReadInt32BE(buf, 0)
       IN IF Len(buf) < size THEN [frames |-> out, buffer |-> buf]
          ELSE LET type == ReadInt32BE(buf, 4)
                   data == BufSlice(buf, 8, size)
               IN ConsumeLoop(BufFrom(buf, size), Append(out, [type |-> type, data |-> data]))

\* decodeFrames(buf) of lib/each.js: frames and remainder
RECURSIVE DecodeFrames(_, _)
DecodeFrames(buf, out) ==
  IF ~(Len(buf) > 4) THEN [frames |-> out, buffer |-> buf]
  ELSE LET size == 4 + ReadInt32BE(buf, 0)
       IN IF Len(buf) < size THEN [frames |-> out, buffer |-> buf]
          ELSE LET type == ReadInt32BE(buf, 4)
                   data == BufSlice(buf, 8, size)
               IN DecodeFrames(BufFrom(buf, size), Append(out, [type |-> type, data |-> data]))

\* no stream is open
CodecIdle ==
  /\ decoder = "receive"
  /\ sentFrames = <<>>
  /\ wire = <<>>
  /\ buffer = <<>>
  /\ frames = <<>>
  /\ retained = FALSE

\* a fresh connection read by one of the decoders; nsqd has written some
\* frames, of which nothing was delivered yet
CodecInit ==
  /\ decoder \in {"receive", "consume", "decode"}
  /\ sentFrames \in UNION {FrameSeqs(n) : n \in 1..MaxFrames}
  /\ wire = StreamBytes(sentFrames)
  /\ buffer = <<>>
  /\ frames = <<>>
  /\ retained = FALSE

\* the socket delivers the next n bytes as one 'data' event, and the decoder
\* leaves `result`
Deliver(n, result) ==
  /\ wire' = BufFrom(wire, n)
  /\ frames' = frames \o result.frames
  /\ buffer' = result.buffer
  /\ retained' = (retained \/ result.buffer # <<>>)
  /\ UNCHANGED <<decoder, sentFrames>>
  /\ UNCHANGED <<subVars, connVars, messageVars, waitVars, sockVars, discVars, queueVars,
                 squeakyVars>>

\* Connection._receive(data) of lib/connection.js
ConnectionReceive ==
  /\ decoder = "receive"
  /\ \E n \in 1..Len(wire) :
       Deliver(n, ReceiveLoop(Accumulate(buffer, BufSlice(wire, 0, n)), <<>>))

\* Connection._receive(chunk) of unnamed/part_005
ConsumeReceive ==
  /\ decoder = "consume"
  /\ \E n \in 1..Len(wire) :
       Deliver(n, ConsumeLoop(Accumulate(buffer, BufSlice(wire, 0, n)), <<>>))

\* a 'data' handler built on decodeFrames: the remainder of the last call is
\* put in front of the chunk
DecodeReceive ==
  /\ decoder = "decode"
  /\ \E n \in 1..Len(wire) :
       Deliver(n, DecodeFrames(Accumulate(buffer, BufSlice(wire, 0, n)), <<>>))

\* ------------------------------------------------------------------------
\* Queue (lib/queue.js)

Tasks == 1..MaxTasks

\* new Queue({ action })
QueueInit ==
  /\ qItems = <<>>
  /\ qRunning = FALSE
  /\ qDrained = FALSE
  /\ qActive = {}
  /\ qStarted = <<>>
  /\ qSettled = [t \in Tasks |-> "pending"]
  /\ qStopWaiters = 0
  /\ qStopped = FALSE
  /\ qNext = 1
  /\ qFirsts = {}

\* _pulse() with items its, running run and drained dr, while the actions of
\* act are unsettled: a queue that is not running emits 'stopped', which
\* resolves the stop() promises; an empty one sets drained; otherwise the
\* first item is shifted and its action is started
Pulse(its, run, dr, act, stopped) ==
  IF ~run
  THEN /\ qStopWaiters' = 0
       /\ qStopped' = (stopped \/ qStopWaiters > 0)
       /\ qItems' = its
       /\ qDrained' = dr
       /\ qActive' = act
       /\ UNCHANGED qStarted
  ELSE IF its = <<>>
  THEN /\ qDrained' = TRUE
       /\ qStopped' = stopped
       /\ qItems' = its
       /\ qActive' = act
       /\ UNCHANGED <<qStarted, qStopWaiters>>
  ELSE /\ qItems' = Tail(its)
       /\ qActive' = act \cup {Head(its)}
       /\ qStarted' = Append(qStarted, Head(its))
       /\ qDrained' = dr
       /\ qStopped' = stopped
       /\ UNCHANGED qStopWaiters

queueUnchanged ==
  UNCHANGED <<subVars, connVars, messageVars, waitVars, sockVars, discVars, codecVars,
              squeakyVars>>

\* add(task, first): unshift or push; a running, drained queue pulses at once
QueueAdd(first) ==
  /\ qNext <= MaxTasks
  /\ LET its == IF first THEN <<qNext>> \o qItems ELSE Append(qItems, qNext) IN
       IF qRunning /\ qDrained
       THEN Pulse(its, qRunning, FALSE, qActive, qStopped)
       ELSE /\ qItems' = its
            /\ UNCHANGED <<qDrained, qActive, qStarted, qStopWaiters, qStopped>>
  /\ qNext' = qNext + 1
  /\ qFirsts' = IF first THEN qFirsts \cup {qNext} ELSE qFirsts
  /\ UNCHANGED <<qRunning, qSettled>>
  /\ queueUnchanged

\* start()
QueueStart ==
  /\ qRunning' = TRUE
  /\ Pulse(qItems, TRUE, FALSE, qActive, FALSE)
  /\ UNCHANGED <<qSettled, qNext, qFirsts>>
  /\ queueUnchanged

\* stop(): a queue that is not running or is drained returns a resolved
\* promise and changes nothing; otherwise running is cleared and the promise
\* waits for 'stopped'
QueueStop ==
  /\ (qRunning /\ ~qDrained) => qStopWaiters < MaxStops
  /\ IF ~qRunning \/ qDrained
     THEN /\ qStopped' = TRUE
          /\ UNCHANGED <<qRunning, qStopWaiters>>
     ELSE /\ qRunning' = FALSE
          /\ qStopWaiters' = qStopWaiters + 1
          /\ UNCHANGED qStopped
  /\ UNCHANGED <<qItems, qDrained, qActive, qStarted, qSettled, qNext, qFirsts>>
  /\ queueUnchanged

\* the promise of action(task) settles: the envelope is resolved or rejected
\* and _pulse() runs
ActionSettles(t, ok) ==
  /\ t \in qActive
  /\ qSettled' = [qSettled EXCEPT ![t] = IF ok THEN "resolved" ELSE "rejected"]
  /\ Pulse(qItems, qRunning, qDrained, qActive \ {t}, qStopped)
  /\ UNCHANGED <<qRunning, qNext, qFirsts>>
  /\ queueUnchanged

\* ------------------------------------------------------------------------
\* Squeaky (lib/index.js, unnamed/part_003)

Names == 1..MaxNames

Calls == 1..MaxCalls

NoCall == [name |-> 0, stage |-> "none", conn |-> 0, created |-> FALSE]

\* new Squeaky(options)
SqueakyInit ==
  /\ sqConnections = [n \in Names |-> 0]
  /\ sqCalls = [c \in Calls |-> NoCall]

squeakyUnchanged ==
  UNCHANGED <<subVars, connVars, messageVars, waitVars, sockVars, discVars, codecVars,
              queueVars>>

\* the calls are numbered in the order in which they are made
NextCall(c) == sqCalls[c].stage = "none" /\ \A d \in Calls : d < c => sqCalls[d].stage # "none"

\* subscribe(topic, channel) of lib/index.js up to its await: the connection
\* of the name is returned, or a Connection is created and
\* connection.subscribe() is awaited; connections is not written yet
SqueakySubscribe(c, name) ==
  /\ NextCall(c)
  /\ sqCalls' = [sqCalls EXCEPT ![c] =
       IF sqConnections[name] # 0
       THEN [name |-> name, stage |-> "resolved", conn |-> sqConnections[name],
             created |-> FALSE]
       ELSE [name |-> name, stage |-> "subscribing", conn |-> c, created |-> TRUE]]
  /\ UNCHANGED sqConnections
  /\ squeakyUnchanged

\* subscribe() of lib/index.js after its await: connection.ready(), then
\* connections.set(name, connection)
SqueakySubscribed(c) ==
  /\ sqCalls[c].stage = "subscribing"
  /\ sqConnections' = [sqConnections EXCEPT ![sqCalls[c].name] = sqCalls[c].conn]
  /\ sqCalls' = [sqCalls EXCEPT ![c].stage = "resolved"]
  /\ squeakyUnchanged

\* connection.subscribe() rejects and so does subscribe()
SqueakySubscribeFailed(c) ==
  /\ sqCalls[c].stage = "subscribing"
  /\ sqCalls' = [sqCalls EXCEPT ![c].stage = "rejected"]
  /\ UNCHANGED sqConnections
  /\ squeakyUnchanged

\* subscribe(topic, channel) of unnamed/part_003: the connection of the name
\* is returned, or a connection is created and set in connections before its
\* subscribe() is called
SqueakySubscribeSet(c, name) ==
  /\ NextCall(c)
  /\ IF sqConnections[name] # 0
     THEN /\ sqCalls' = [sqCalls EXCEPT ![c] =
               [name |-> name, stage |-> "resolved", conn |-> sqConnections[name],
                created |-> FALSE]]
          /\ UNCHANGED sqConnections
     ELSE /\ sqCalls' = [sqCalls EXCEPT ![c] =
               [name |-> name, stage |-> "subscribing", conn |-> c, created |-> TRUE]]
          /\ sqConnections' = [sqConnections EXCEPT ![name] = c]
  /\ squeakyUnchanged

\* subscribe() of unnamed/part_003, connection.subscribe() resolved:
\* connection.ready(), and the call resolves to the connection
SqueakyReady(c) ==
  /\ sqCalls[c].stage = "subscribing"
  /\ sqCalls' = [sqCalls EXCEPT ![c].stage = "resolved"]
  /\ UNCHANGED sqConnections
  /\ squeakyUnchanged

\* the objects of the other modules of the library, none constructed
LibIdle == DiscIdle /\ CodecIdle /\ QueueInit /\ SqueakyInit

\* ------------------------------------------------------------------------
\* Message (lib/message.js)
\* ------------------------------------------------------------------------

\* the Connection of unnamed/part_005 after its constructor
WaitingIdle ==
  /\ waiting = <<>>
  /\ rejected = {}
  /\ readyCount = 0
  /\ resub = FALSE
  /\ resubSub = 0
  /\ resubRdy = 0
  /\ outageCmds = {}
  /\ afterError = {}
  /\ lost = {}
  /\ sentCmds = <<>>
  /\ inFlight = <<>>

\* no Message was constructed
MessageIdle ==
  /\ now = 0
  /\ msgTimeout = 1
  /\ maxMsgTimeout = 1
  /\ published = 0
  /\ timestamp = 0
  /\ touched = 0
  /\ msgTimer = FALSE
  /\ touchedAt = Undef
  /\ touchedBefore = 0
  /\ timerBefore = FALSE
  /\ expiresBefore = 0
  /\ expiresAfter = 0
  /\ kaStage = "none"
  /\ msgFinished = FALSE
  /\ touchedLate = FALSE
  /\ WaitingIdle

\* the constructor: timestamp is the time of receipt, published the time in
\* the frame, touched starts at timestamp, timer at null
MessageNew ==
  /\ msgTimeout \in 1..MaxMsgTimeout
  /\ maxMsgTimeout \in msgTimeout..MaxMaxMsgTimeout
  /\ published \in 0..MaxBacklog
  /\ now \in published..MaxClock
  /\ timestamp = now
  /\ touched = timestamp
  /\ msgTimer = FALSE
  /\ touchedAt = Undef
  /\ touchedBefore = 0
  /\ timerBefore = FALSE
  /\ expiresBefore = 0
  /\ expiresAfter = 0
  /\ kaStage = "none"
  /\ msgFinished = FALSE
  /\ touchedLate = FALSE
  /\ WaitingIdle

\* get expired, for the given value of touched
Expired(t) == t + msgTimeout < now \/ published + maxMsgTimeout < now

\* an expiresIn that leaves max_msg_timeout out of account
ExpiresInUncapped(t, tm) == t + msgTimeout - now

\* get expiresIn, for the given values of touched and timer
ExpiresIn(t, tm) ==
  IF tm
  THEN published + maxMsgTimeout - now
  ELSE Min(t + msgTimeout - now, published + maxMsgTimeout - now)

\* the clock advances
Tick ==
  /\ now < MaxClock
  /\ now' = now + 1
  /\ UNCHANGED <<msgTimeout, maxMsgTimeout, published, timestamp, touched, msgTimer, touchedAt,
                 touchedBefore, timerBefore, expiresBefore, expiresAfter, keepVars>>
  /\ UNCHANGED <<subVars, connVars, waitVars, sockVars, libVars>>

\* the application reads expiresIn, calls touch() and reads expiresIn again
\* when touch() has resolved: connection.touch(id), then touched = Date.now()
MessageTouch ==
  /\ touchedBefore' = touched
  /\ timerBefore' = msgTimer
  /\ expiresBefore' = ExpiresIn(touched, msgTimer)
  /\ touched' = now
  /\ touchedAt' = now
  /\ expiresAfter' = ExpiresIn(now, msgTimer)
  /\ UNCHANGED <<now, msgTimeout, maxMsgTimeout, published, timestamp, msgTimer, keepVars>>
  /\ UNCHANGED <<subVars, connVars, waitVars, sockVars, libVars>>

\* keepalive(): unless the message is expired, touch() and the timer of the
\* next keepalive
MessageKeepalive ==
  /\ IF Expired(touched)
     THEN UNCHANGED <<touched, msgTimer>>
     ELSE /\ touched' = now
          /\ msgTimer' = TRUE
  /\ msgTimer' # msgTimer \/ touched' # touched
  /\ UNCHANGED <<now, msgTimeout, maxMsgTimeout, published, timestamp, touchedAt,
                 touchedBefore, timerBefore, expiresBefore, expiresAfter, keepVars>>
  /\ UNCHANGED <<subVars, connVars, waitVars, sockVars, libVars>>

\* the variables of the Message that keepalive() and finish() leave alone
keepUnchanged == <<now, msgTimeout, maxMsgTimeout, published, timestamp, touchedAt,
                   touchedBefore, timerBefore, expiresBefore, expiresAfter>>

\* keepalive() up to its await: unless the message is expired,
\* connection.touch(id) is called (TOUCH is sent) and its promise awaited
KeepaliveRun ==
  IF Expired(touched)
  THEN /\ kaStage' = "stopped"
       /\ UNCHANGED touchedLate
  ELSE /\ kaStage' = "touching"
       /\ touchedLate' = (touchedLate \/ msgFinished)

\* the application calls keepalive() on a message it has not answered
KeepaliveCall ==
  /\ kaStage = "none"
  /\ ~msgFinished
  /\ KeepaliveRun
  /\ UNCHANGED <<keepUnchanged, touched, msgTimer, msgFinished>>
  /\ UNCHANGED <<subVars, connVars, waitVars, sockVars, libVars>>

\* the await of keepalive() resolves: touch() sets touched, then the timer of
\* the next keepalive() is set
KeepaliveResume ==
  /\ kaStage = "touching"
  /\ touched' = now
  /\ msgTimer' = TRUE
  /\ kaStage' = "armed"
  /\ UNCHANGED <<keepUnchanged, msgFinished, touchedLate>>
  /\ UNCHANGED <<subVars, connVars, waitVars, sockVars, libVars>>

\* the timer set by keepalive() fires: keepalive() runs again
KeepaliveTimer ==
  /\ kaStage = "armed"
  /\ KeepaliveRun
  /\ UNCHANGED <<keepUnchanged, touched, msgTimer, msgFinished>>
  /\ UNCHANGED <<subVars, connVars, waitVars, sockVars, libVars>>

\* clearTimeout(this.timer): a pending timer is cancelled
ClearTimer ==
  kaStage' = IF kaStage = "armed" THEN "none" ELSE kaStage

\* finish() and requeue(delay): clearTimeout(this.timer), then FIN or REQ is
\* handed to the connection (Finish(m) and Requeue(m) of the Connection)
MessageAnswer ==
  /\ ~msgFinished
  /\ ClearTimer
  /\ msgFinished' = TRUE
  /\ UNCHANGED <<keepUnchanged, touched, msgTimer, touchedLate>>
  /\ UNCHANGED <<subVars, connVars, waitVars, sockVars, libVars>>

\* ------------------------------------------------------------------------
\* Specifications
\* ------------------------------------------------------------------------

\* the Subscriber before connect(), with one fixed set of options
SubIdle ==
  /\ SubInit
  /\ optConcurrency = 1
  /\ ~lookupMode

\* the Subscriber on its own
Init == SubInit /\ ConnectionInit /\ MessageIdle /\ SockIdle /\ LibIdle

Next ==
  \/ Connect
  \/ AddListener
  \/ ResumeStart
  \/ ResumeConnect
  \/ PollBegin
  \/ Poll
  \/ \E h \in Hosts : ConnReadyEvent(h)
  \/ Pause
  \/ Unpause
  \/ \E h \in Hosts : OnMessage(h)

Spec == Init /\ [][Next]_vars

\* the polls, and the continuations of suspended handlers, always run in the end
\* (the poll timer is re-armed by every poll; promise continuations are microtasks)
FairSpec ==
  /\ Spec
  /\ WF_vars(PollBegin)
  /\ WF_vars(Poll)
  /\ WF_vars(ResumeStart)
  /\ WF_vars(ResumeConnect)

\* one Connection on its own; nsqd sends it no message, so that finish,
\* requeue and touch are about an id that is not in the inflight map
ConnInit == ConnectionInit /\ SubIdle /\ MessageIdle /\ SockIdle /\ LibIdle

ConnNext ==
  \/ OnConnect
  \/ OnConnectError
  \/ OnDisconnect
  \/ ReconnectTimer
  \/ Publish(FALSE, FALSE)
  \/ Subscribe
  \/ Ready(MaxRdy)
  \/ Finish(1)
  \/ Requeue(1)
  \/ Touch(1)
  \/ PulseRun
  \/ PulseItem
  \/ PulseEnd
  \/ FrameResponse
  \/ FrameHeartbeat
  \/ FrameError
  \/ Close
  \/ CloseSnapshot
  \/ CloseAwaitPulsing
  \/ CloseRun

ConnSpec == ConnInit /\ [][ConnNext]_vars

\* the Connection with an application that only publishes: single or multi,
\* delayed or not
PublishNext ==
  \/ OnConnect
  \/ OnConnectError
  \/ OnDisconnect
  \/ ReconnectTimer
  \/ \E multi, delayed \in BOOLEAN : Publish(multi, delayed)
  \/ PulseRun
  \/ PulseItem
  \/ PulseEnd
  \/ FrameResponse
  \/ FrameError

PublishSpec == ConnInit /\ [][PublishNext]_vars

\* the Connection with fair timers, a fair event loop and a fair server:
\* promise callbacks that are due run, the reconnect timer fires, a connect
\* attempt ends (in 'connect' or 'error'), and nsqd answers IDENTIFY and
\* every command that has a response (with a RESPONSE or an ERROR frame)
ConnFairSpec ==
  /\ ConnSpec
  /\ WF_vars(PulseRun)
  /\ WF_vars(PulseItem)
  /\ WF_vars(PulseEnd)
  /\ WF_vars(CloseSnapshot)
  /\ WF_vars(CloseAwaitPulsing)
  /\ WF_vars(CloseRun)
  /\ WF_vars(ReconnectTimer)
  /\ WF_vars(OnConnect \/ OnConnectError)
  /\ WF_vars((state = "Identifying" \/ awaited # 0) /\ (FrameResponse \/ FrameError))

\* a Connection that subscribed and sent RDY: SUB (command 1) was written
\* after the first 'ready' and answered, RDY (command 2) was written after it
SubscribedReady ==
  /\ state = "Ready"
  /\ socket = "open"
  /\ reconnectTimer = FALSE
  /\ connectAttempts = 0
  /\ subscribed = TRUE
  /\ queue = <<>>
  /\ envelope = 0
  /\ pulsingReady = TRUE
  /\ pulses = 0
  /\ running = FALSE
  /\ batch = <<>>
  /\ awaited = 0
  /\ nextId = 3
  /\ written = <<1, 2>>
  /\ unresolved = {}
  /\ identifies = 1
  /\ readyEmits = 1
  /\ closeAt = Undef
  /\ closeStage = "idle"
  /\ closeWait = {}
  /\ closedEmits = 0
  /\ sentRdy \in 1..MaxRdy
  /\ refused = 0
  /\ resolved = {}
  /\ srvSub = TRUE
  /\ srvRdy = sentRdy
  /\ incoming = <<>>

\* the subscribed Connection before nsqd has sent it a message
InflightInit ==
  /\ SubIdle
  /\ SubscribedReady
  /\ inflight = [m \in MsgIds |-> 0]
  /\ timer = [d \in Deliveries |-> NoTimer]
  /\ delivered = <<>>
  /\ srvInflight = {}
  /\ MessageIdle
  /\ SockIdle
  /\ LibIdle

\* the subscribed Connection, nsqd delivering to it, and the application
\* answering the messages and closing
InflightNext ==
  \/ \E m \in MsgIds : SrvSend(m)
  \/ \E m \in MsgIds : SrvTimeout(m)
  \/ FrameMessage
  \/ \E d \in Deliveries : TimerFire(d)
  \/ \E count \in 0..MaxRdy : Ready(count)
  \/ \E m \in MsgIds : Finish(m)
  \/ \E m \in MsgIds : Requeue(m)
  \/ \E m \in MsgIds : Touch(m)
  \/ PulseRun
  \/ PulseItem
  \/ PulseEnd
  \/ OnDisconnect
  \/ ReconnectTimer
  \/ OnConnect
  \/ FrameResponse
  \/ Close
  \/ CloseSnapshot
  \/ CloseAwaitPulsing
  \/ CloseRun

InflightSpec == InflightInit /\ [][InflightNext]_vars

\* the Connection of unnamed/part_005, its commands and the frames answering
\* them
WaitingInit == ConnInit

WaitingNext ==
  \/ SocketConnect
  \/ SocketClose
  \/ ReconnectTimeout
  \/ \E needsResponse \in BOOLEAN : Send(needsResponse)
  \/ SendSubscribe
  \/ \E count \in 1..MaxRdy : SendReady(count)
  \/ SendRun
  \/ ResponseFrame
  \/ \E code \in ErrorCodes : ErrorFrame(code)
  \/ IdentifyRejected

WaitingSpec == WaitingInit /\ [][WaitingNext]_vars

\* that Connection with a fair event loop, fair timers and a fair server: a
\* chained send that can run runs, the reconnect timer fires, a connect
\* attempt ends, nsqd closes a socket that the client has ended, answers
\* IDENTIFY and every command with a response; the catch of _identify runs
WaitingFairSpec ==
  /\ WaitingSpec
  /\ WF_vars(SendRun)
  /\ WF_vars(ReconnectTimeout)
  /\ WF_vars(IdentifyRejected)
  /\ WF_vars(SocketConnect \/ (socket = "connecting" /\ SocketClose))
  /\ WF_vars(socket = "ended" /\ SocketClose)
  /\ WF_vars(waiting # <<>> /\ socket = "open"
               /\ (ResponseFrame \/ \E code \in ErrorCodes : ErrorFrame(code)))

\* the Connection of unnamed/part_005 once IDENTIFY was answered
IdentifiedInit ==
  /\ state = "Ready"
  /\ socket = "open"
  /\ reconnectTimer = FALSE
  /\ connectAttempts = 0
  /\ subscribed = FALSE
  /\ queue = <<>>
  /\ envelope = 0
  /\ pulsingReady = TRUE
  /\ pulses = 0
  /\ running = FALSE
  /\ batch = <<>>
  /\ awaited = 0
  /\ nextId = 1
  /\ written = <<>>
  /\ unresolved = {}
  /\ identifies = 1
  /\ readyEmits = 1
  /\ closeAt = Undef
  /\ closeStage = "idle"
  /\ closeWait = {}
  /\ closedEmits = 0
  /\ sentRdy = 0
  /\ refused = 0
  /\ NoMessages

\* that Connection and nsqd, which reads the commands in the order written
\* and whose frames arrive in the order sent
ReplyInit == IdentifiedInit /\ SubIdle /\ MessageIdle /\ SockIdle /\ LibIdle

ReplyNext ==
  \/ \E needsResponse \in BOOLEAN : Send(needsResponse)
  \/ \E count \in 1..MaxRdy : SendReady(count)
  \/ SendRun
  \/ ServerExecutes
  \/ ServerReplies
  \/ FrameArrives

ReplySpec == ReplyInit /\ [][ReplyNext]_vars

\* the Connection of unnamed/part_005 from its constructor, its socket
\* connecting, dropping and reconnecting, with nsqd answering each command it
\* reads once
OutageNext ==
  \/ SocketConnect
  \/ SocketClose
  \/ ReconnectTimeout
  \/ \E needsResponse \in BOOLEAN : Send(needsResponse)
  \/ SendRun
  \/ ServerExecutes
  \/ ServerReplies
  \/ FrameArrives
  \/ IdentifyRejected

OutageSpec == WaitingInit /\ [][OutageNext]_vars

\* with a fair event loop, fair timers and a fair server: a chained send that
\* can run runs, the reconnect timer fires, a connect attempt ends, nsqd
\* closes a socket that the client has ended, reads every command and its
\* frames arrive; the catch of _identify runs
OutageFairSpec ==
  /\ OutageSpec
  /\ WF_vars(SendRun)
  /\ WF_vars(ReconnectTimeout)
  /\ WF_vars(IdentifyRejected)
  /\ WF_vars(SocketConnect \/ (socket = "connecting" /\ SocketClose))
  /\ WF_vars(socket = "ended" /\ SocketClose)
  /\ WF_vars(ServerExecutes \/ ServerReplies)
  /\ WF_vars(FrameArrives)

\* one Message held by a subscribed Connection, with any publish time, time
\* of receipt and timeouts
MessageInit ==
  /\ SubIdle
  /\ SubscribedReady
  /\ inflight = [m \in MsgIds |-> IF m = 1 THEN 1 ELSE 0]
  /\ timer = [d \in Deliveries |-> IF d = 1 THEN 0 ELSE NoTimer]
  /\ delivered = <<1>>
  /\ srvInflight = {1}
  /\ MessageNew
  /\ SockIdle
  /\ LibIdle

MessageNext ==
  \/ Tick
  \/ MessageTouch
  \/ MessageKeepalive

MessageSpec == MessageInit /\ [][MessageNext]_vars

\* one Message kept alive by keepalive() until it is answered
KeepaliveNext ==
  \/ Tick
  \/ KeepaliveCall
  \/ KeepaliveResume
  \/ KeepaliveTimer
  \/ MessageAnswer

KeepaliveSpec == MessageInit /\ [][KeepaliveNext]_vars

\* one ReconnectingSocket, with any options, its peer and its owner
SockSpecInit == SockInit /\ SubIdle /\ ConnectionInit /\ MessageIdle /\ LibIdle

SockNext ==
  \/ SockConnected
  \/ SockClosed
  \/ RetryTimeout
  \/ SockEnd

SockSpec == SockSpecInit /\ [][SockNext]_vars

\* the polls of a Subscriber in lookup mode, every lookup answering or
\* failing in any way
LookupInit ==
  /\ SubInit
  /\ lookupMode
  /\ optConcurrency = 1
  /\ ConnectionInit
  /\ MessageIdle
  /\ SockIdle
  /\ LibIdle

LookupNext ==
  \/ Connect
  \/ PollBegin
  \/ PollWith([Lookups -> Replies])
  \/ AddListener
  \/ ResumeStart
  \/ ResumeConnect

LookupSpec == LookupInit /\ [][LookupNext]_vars

\* one Discoverer whose connections come and go, ready() being called at
\* any time
DiscInit ==
  /\ SubIdle /\ ConnectionInit /\ MessageIdle /\ SockIdle
  /\ DiscovererInit /\ CodecIdle /\ QueueInit /\ SqueakyInit

DiscNext ==
  \/ Discover
  \/ DiscovererReady

DiscSpec == DiscInit /\ [][DiscNext]_vars

\* a stream of frames delivered in chunks of any sizes to one of the decoders
CodecSpecInit ==
  /\ SubIdle /\ ConnectionInit /\ MessageIdle /\ SockIdle
  /\ DiscIdle /\ CodecInit /\ QueueInit /\ SqueakyInit

CodecNext ==
  \/ ConnectionReceive
  \/ ConsumeReceive
  \/ DecodeReceive

CodecSpec == CodecSpecInit /\ [][CodecNext]_vars

\* the objects of lib/queue.js and lib/index.js as constructed, nothing else
\* in use
LibInit == SubIdle /\ ConnectionInit /\ MessageIdle /\ SockIdle /\ LibIdle

\* one Queue with add(), start() and stop() called at any time and its
\* actions settling at any time
QueueNext ==
  \/ \E first \in BOOLEAN : QueueAdd(first)
  \/ QueueStart
  \/ QueueStop
  \/ \E t \in Tasks, ok \in BOOLEAN : ActionSettles(t, ok)

QueueSpec == LibInit /\ [][QueueNext]_vars

\* one Squeaky client of lib/index.js with subscribe() called at any time
SqueakyNext ==
  \/ \E c \in Calls, name \in Names : SqueakySubscribe(c, name)
  \/ \E c \in Calls : SqueakySubscribed(c)
  \/ \E c \in Calls : SqueakySubscribeFailed(c)

SqueakySpec == LibInit /\ [][SqueakyNext]_vars

\* one Squeaky client of unnamed/part_003
SqueakySetNext ==
  \/ \E c \in Calls, name \in Names : SqueakySubscribeSet(c, name)
  \/ \E c \in Calls : SqueakyReady(c)
  \/ \E c \in Calls : SqueakySubscribeFailed(c)

SqueakySetSpec == LibInit /\ [][SqueakySetNext]_vars

\* the Subscriber with close(): concurrency 2 in either mode
SubCloseInit ==
  /\ Init
  /\ optConcurrency = 2

SubCloseNext ==
  \/ Next
  \/ SubscriberClose
  \/ SubscriberCloseResume
  \/ SubscriberCloseNext

SubCloseSpec == SubCloseInit /\ [][SubCloseNext]_vars

\* ------------------------------------------------------------------------
\* C21: a close() that was called completes in the end (state Closed, socket
\* destroyed, 'closed' emitted), whatever the state of the connection at the
\* call.
\* ------------------------------------------------------------------------
C21_CloseCompletes == (closeStage # "idle") ~> (closeAt = Done)

\* ------------------------------------------------------------------------
\* C22: once close() has completed (state Closed, socket destroyed), the
\* connection stays Closed and no connect is started, also when a reconnect
\* timer was pending at the time of the close.
\* ------------------------------------------------------------------------
C22_NoConnectAfterClose ==
  [][closeAt = Done => state' = "Closed" /\ socket' # "connecting"]_vars

C24_ReconnectResetsAttempts ==
  [][sockEmits'["reconnect"] # sockEmits["reconnect"] => sockAttempts' = 0]_vars

\* the reconnect attempts of the Connection are used up: _reconnect() has
\* returned without setting a timer, and not because of close()
Terminated ==
  /\ socket = "down"
  /\ ~reconnectTimer
  /\ state # "Closed"
  /\ connectAttempts + 1 >= MaxConnectAttempts

\* ------------------------------------------------------------------------
\* C25: once the reconnect attempts are used up, no promise of a command is
\* left pending: neither of a command that was written and awaits its
\* response, nor of a command in the queue (submitted before or after the
\* failure).
\* ------------------------------------------------------------------------
C25_TerminalFailureRejects ==
  Terminated => /\ unresolved = {}
                /\ \A i \in 1..Len(queue) : ~HasPromise(queue[i])

\* ------------------------------------------------------------------------
\* Subscriber: properties
\* ------------------------------------------------------------------------

\* the last RDY count sent to a connection (0 when none was sent yet)
RdyOf(sent, h) == IF sent[h] = Undef THEN 0 ELSE sent[h]

ReadySum(conns, sent) == SumOver([h \in Hosts |-> RdyOf(sent, h)], Range(conns))

\* the step is a run of a handler that calls _distributeReady()
Distributes ==
  \/ Pause
  \/ Unpause
  \/ ResumeStart
  \/ started /\ ResumeConnect
  \/ ~started /\ subState = "Ready" /\ AddListener
  \/ started /\ Poll

\* the step completes a poll of the lookups
PollCompletes == subState = "Polling" /\ subState' = "Ready"

\* C1: in every reachable state the sum over the connection set of the last RDY
\* count sent to each connection is at most the effective concurrency (0 while
\* paused).
C1_ReadySumWithinConcurrency == ReadySum(connections, rdy) <= concurrency

C3_PollSwapsHolder ==
  [][(/\ PollCompletes
      /\ concurrency = 1
      /\ Len(connections) = 2
      /\ connections' = connections)
       => \A h \in Range(connections) :
            rdy[h] = 1 => /\ rdy'[h] = 0
                          /\ \A o \in Range(connections) \ {h} : rdy'[o] = 1]_vars

\* the distribution rotates for connection h: a listener has started it, and
\* the effective concurrency is at least 1 and smaller than the number of
\* connections
Rotating(h) ==
  /\ h \in Range(connections)
  /\ started
  /\ concurrency >= 1
  /\ concurrency < Len(connections)

\* C4: when the concurrency C >= 1 is smaller than the number of connections and
\* the connection set stays stable while polls keep occurring, every connection
\* is granted ready > 0 again and again (none keeps ready = 0 forever).
C4_NoStarvation ==
  \A h \in Hosts :
    (<>[][connections' = connections]_vars /\ <>[]Rotating(h)) => []<>(rdy[h] > 0)

\* C5: after pause() completes on a Subscriber with at least one connection, no
\* connection keeps a positive ready count (every connection that was sent a
\* RDY has been sent RDY 0); after unpause() the ready counts are those
\* computed from the configured concurrency.
C5_PauseSendsZero ==
  [][/\ (Pause /\ Len(connections) >= 1)
          => \A h \in Range(connections') : RdyOf(rdy', h) = 0
     /\ (Unpause /\ Len(connections) >= 1 /\ optConcurrency >= Len(connections))
          => \A h \in Range(connections') : rdy'[h] = optConcurrency \div Len(connections)]_vars

\* ------------------------------------------------------------------------
\* Connection: properties
\* ------------------------------------------------------------------------

\* the response-bearing commands that were written and are not answered yet:
\* the queued ones whose promise is unsettled, and the IDENTIFY of a handshake
\* that is under way
Outstanding ==
  Cardinality(unresolved) + (IF state = "Identifying" /\ socket = "open" THEN 1 ELSE 0)

\* the step writes a queued command (the only place that takes an envelope out
\* of the queue is the each() step of _pulse, which writes it)
WritesQueued == Len(queue') < Len(queue)

\* C6: in every reachable state of a connection, across disconnects, reconnects
\* and the IDENTIFY handshake, at most one response-bearing command has been
\* written without its completion being resolved.
C6_SingleOutstanding == Outstanding <= 1

\* C7: the commands submitted on a connection are written to the socket in the
\* order of their submission (ids count the submissions), whatever frames arrive
\* in between.
C7_SubmissionOrder ==
  \A i, j \in 1..Len(written) : i < j => written[i] < written[j]

\* C7 witness: all the submitted commands were written, a heartbeat reply among them
C7_Witness ==
  /\ Len(written) = MaxCmds
  /\ NOP \in Range(queue)

\* C8: once a response-bearing command is written, no queued command is written
\* until its waiter is settled, and the waiter is settled only by a RESPONSE
\* frame or an ERROR frame.
C8_NoWriteWhileWaiting ==
  [][/\ WritesQueued => unresolved = {}
     /\ (unresolved # {} /\ unresolved' # unresolved) => (FrameResponse \/ FrameError)]_vars

\* C8 witness: a response-bearing command is written and unanswered while the
\* running callback holds back the next envelope of its batch
C8_Witness ==
  /\ unresolved # {}
  /\ running
  /\ batch # <<>>

\* C9: a heartbeat frame puts a NOP at the head of the command queue, so that
\* it is written before every command already queued, and leaves the
\* outstanding waiter alone.
C9_HeartbeatNopAtHead ==
  [][FrameHeartbeat => /\ Head(queue') = NOP
                       /\ Tail(queue') = queue
                       /\ envelope' = envelope
                       /\ unresolved' = unresolved]_vars

\* C10: the connection becomes Ready only from Identifying, on the RESPONSE
\* frame that answers IDENTIFY; 'ready' is emitted by that step and by no
\* other, once; a socket that connects (again) finds the connection in
\* Connecting and takes it to Identifying.
C10_ReadyOnlyFromIdentifying ==
  /\ [](readyEmits <= identifies)
  /\ [][/\ (state' = "Ready" /\ state # "Ready") => (state = "Identifying" /\ FrameResponse)
        /\ (state = "Identifying" /\ FrameResponse) => state' = "Ready"
        /\ readyEmits' = IF state' = "Ready" /\ state # "Ready" THEN readyEmits + 1
                         ELSE readyEmits
        /\ (state' = "Identifying" /\ state # "Identifying") => state = "Connecting"
        /\ (socket' = "open" /\ socket # "open")
              => (state = "Connecting" /\ state' = "Identifying")]_vars

\* C10 witness: Ready for the second time, after a disconnect and a second IDENTIFY
C10_Witness ==
  /\ state = "Ready"
  /\ socket = "open"
  /\ identifies = 2
  /\ readyEmits = 2

\* C11: a command of the application is written to the socket only while the
\* connection is Ready on a connected socket, that is after the IDENTIFY of the
\* current TCP connection was answered; this covers commands submitted while
\* the connection is disconnected or reconnecting.
C11_WritesOnlyWhenReady ==
  [][Len(written') > Len(written) => (state = "Ready" /\ socket = "open")]_vars

\* C13: an ERROR frame received while Identifying closes the connection: the
\* state becomes Closed, the socket is torn down and 'closed' is emitted once;
\* a connection that is Closed with no reconnect timer pending stays so, and
\* never emits 'ready' again.
C13_RejectedIdentifyCloses ==
  [][/\ (FrameError /\ state = "Identifying")
          => /\ state' = "Closed"
             /\ socket' = "down"
             /\ closedEmits' = closedEmits + 1
             /\ ~reconnectTimer'
     /\ (state = "Closed" /\ ~reconnectTimer)
          => /\ state' = "Closed"
             /\ socket' = "down"
             /\ ~reconnectTimer'
             /\ readyEmits' = readyEmits]_vars

\* C13 witness: the IDENTIFY of the first connect was rejected; the connection
\* is Closed without close() having been called
C13_Witness ==
  /\ state = "Closed"
  /\ socket = "down"
  /\ closedEmits = 1
  /\ closeStage = "idle"
  /\ identifies = 1
  /\ readyEmits = 0

\* ------------------------------------------------------------------------
\* Connection: properties of the inflight map
\* ------------------------------------------------------------------------

\* the entries set so far for message id m
EntriesOf(m) == {d \in 1..Len(delivered) : delivered[d] = m}

\* C14: every message delivered to the application leaves the inflight map
\* once, by FIN, REQ or the expiry of its timer; once it is out of the map
\* its finalizer is resolved and no timer of it remains armed.
C14_RemovedOnceAndFinalized ==
  \A d \in 1..Len(delivered) :
    inflight[delivered[d]] # d => (d \in resolved /\ timer[d] = NoTimer)

\* C15: from the moment a message is emitted until FIN, REQ or the expiry of
\* its timer (each of which resolves its finalizer), its id is a key of the
\* inflight map, also across a disconnect and reconnect of the socket.
C15_EmittedIdIsKey ==
  \A d \in 1..Len(delivered) : d \notin resolved => inflight[delivered[d]] # 0

\* C16: the inflight map never holds more entries than the count of the RDY
\* command sent last.
C16_InflightWithinReady == Cardinality(InMap) <= sentRdy

\* C17: touch(x) for an inflight x replaces the armed timer of x by a new one,
\* so that the entry is not removed at the old deadline, and no message id has
\* more than one timer armed.
C17_TouchRearmsSingleTimer ==
  /\ [](\A m \in MsgIds : Cardinality({d \in EntriesOf(m) : timer[d] # NoTimer}) <= 1)
  /\ [][\A m \in MsgIds : (Touch(m) /\ inflight[m] # 0)
          => /\ timer[inflight[m]] # NoTimer
             /\ timer'[inflight[m]] \notin {NoTimer, timer[inflight[m]]}
             /\ inflight'[m] = inflight[m]]_vars

\* the step is finish(m), requeue(m) or touch(m)
Answers(m) == Finish(m) \/ Requeue(m) \/ Touch(m)

\* C19: finish(id), requeue(id) and touch(id) for an id that is not in the
\* inflight map complete (the command is queued) and leave the map, the
\* timers and the finalizers as they are.
C19_AbsentIdNoEffect ==
  [][\A m \in MsgIds : (Answers(m) /\ inflight[m] = 0)
        => /\ UNCHANGED <<inflight, timer, resolved>>
           /\ Len(queue') = Len(queue) + 1]_vars

\* C19 witness: a command for an id that was delivered and has left the map
\* is queued while another message is in the map with its timer armed
C19_Witness ==
  \E m \in MsgIds, i \in 1..Len(queue) :
     /\ queue[i].command \in {"FIN", "REQ", "TOUCH"}
     /\ queue[i].arg = m
     /\ EntriesOf(m) # {}
     /\ EntriesOf(m) \subseteq resolved
     /\ inflight[m] = 0
     /\ \E n \in MsgIds \ {m} : inflight[n] # 0 /\ timer[inflight[n]] # NoTimer

\* C20: close() of a subscribed connection reaches Closed and releases the
\* socket only when no message is in the inflight map.
C20_CloseAwaitsInflight == closeAt = Done => InMap = {}

\* ------------------------------------------------------------------------
\* Message: properties
\* ------------------------------------------------------------------------

\* C18, as stated: expiresIn read right after a touch() that happens strictly
\* after the receipt of the message is strictly greater than expiresIn read
\* right before it.
C18_TouchExtendsAlways ==
  (touchedAt # Undef /\ touchedAt > timestamp) => expiresAfter > expiresBefore

\* C18, amended: expiresIn read right after touch() is never smaller than
\* expiresIn read right before it, and it is strictly greater exactly when no
\* keepalive timer is set, the touch happens strictly after the previous value
\* of touched (the receipt or the previous touch), and msg_timeout counted
\* from that previous value ends before max_msg_timeout counted from the
\* publish time.
C18_TouchExtendsUnlessCapped ==
  touchedAt # Undef =>
    /\ expiresAfter >= expiresBefore
    /\ expiresAfter > expiresBefore
         <=> /\ ~timerBefore
             /\ touchedAt > touchedBefore
             /\ published + maxMsgTimeout > touchedBefore + msgTimeout

\* C18 witness: a touch strictly after receipt, with no keepalive timer, that
\* does not extend expiresIn because max_msg_timeout governs
C18_Witness ==
  /\ touchedAt # Undef
  /\ ~timerBefore
  /\ touchedAt > timestamp
  /\ touchedBefore = timestamp
  /\ published + maxMsgTimeout <= touchedBefore + msgTimeout
  /\ expiresAfter = expiresBefore

\* ------------------------------------------------------------------------
\* Connection of unnamed/part_005: properties
\* ------------------------------------------------------------------------

C26_ResubscribedBeforeOutageCommands ==
  resubRdy \in Range(written) =>
    \A u \in outageCmds \cap Range(written) :
      /\ IndexOf(written, resubSub) < IndexOf(written, u)
      /\ IndexOf(written, resubRdy) < IndexOf(written, u)

C28_UsableAfterErrorRejection ==
  \A p \in 1..MaxCmds :
    (/\ p \in afterError
     /\ \E i \in 1..Len(queue) : queue[i].id = p /\ queue[i].command = "PUB"
     /\ lost = {}
     /\ identifies = 1
     /\ state = "Ready")
      ~> (p \in Range(written) /\ p \notin lost /\ p \notin unresolved)

C30_ConnectionsAreLookedUp ==
  [][PollCompletes =>
       LET union == UNION {lookedUp'[l].producers : l \in Lookups}
       IN /\ Range(connections') = union
          /\ \A i, j \in 1..Len(connections') : connections'[i] = connections'[j] => i = j
          /\ removed' = Range(connections) \ union
          /\ \A h \in removed' : rdy'[h] = Undef /\ cReady'[h] = Undef]_vars

\* a poll has completed that removed a connection and left two, which two
\* lookup URLs named between them
C30_Witness ==
  /\ subState = "Ready"
  /\ removed # {}
  /\ Len(connections) = 2
  /\ \A l \in Lookups : Cardinality(lookedUp[l].producers) = 1
\* ------------------------------------------------------------------------
\* C31: a close() of the Subscriber called while a poll is running waits for
\* that poll's pollComplete (until then the state stays Polling and close()
\* has removed nothing); once close() has resolved the poll timer is
\* cancelled and no poll is running, every connection that close() found was
\* closed and announced 'removed', the connection set is empty and no
\* connection holds a RDY that was sent to it.
\* ------------------------------------------------------------------------
C31_CloseWaitsForPollAndEmpties ==
  /\ subClose = "awaitPoll" => subState = "Polling" /\ closeRemoved = {}
  /\ subClose = "done" =>
       /\ ~pollTimer
       /\ subState # "Polling"
       /\ connections = <<>>
       /\ closeRemoved = closeFound
       /\ \A h \in Hosts : rdy[h] = Undef

\* close() was called during a poll, waited for it, and has closed and removed
\* the two connections that poll left, a listener being attached
C31_Witness ==
  /\ subClose = "done"
  /\ closeWaited
  /\ started
  /\ Cardinality(closeRemoved) = 2

\* ------------------------------------------------------------------------
\* C32: until a 'message' listener has been added to the Subscriber, no
\* connection has been sent a RDY greater than 0.
\* ------------------------------------------------------------------------
C32_NoReadyBeforeListener ==
  listeners = 0 => \A h \in Hosts : rdy[h] <= 0

\* ------------------------------------------------------------------------
\* C33: once finish() or requeue() of a message has returned, no keepalive
\* timer of the message is armed and keepalive() sends no further TOUCH for
\* the message, also when the call came while keepalive() awaited touch().
\* ------------------------------------------------------------------------
C33_KeepaliveStopsOnAnswer ==
  msgFinished => kaStage # "armed" /\ ~touchedLate

\* ------------------------------------------------------------------------
\* C34: the counts Discoverer.ready() hands to its connections are
\* non-negative integers whose sum is the concurrency; concurrency 3 over 2
\* connections gives 2 and 1, and 4 over 2 gives 2 and 2.
\* ------------------------------------------------------------------------
C34_ReadySplitsConcurrency ==
  dCounts # <<>> =>
    /\ \A i \in 1..Len(dCounts) : IsInteger(dCounts[i]) /\ IntegerOf(dCounts[i]) >= 0
    /\ SumOver([i \in 1..Len(dCounts) |-> IntegerOf(dCounts[i])], 1..Len(dCounts)) = dConcurrency
    /\ dConcurrency = 3 /\ Len(dCounts) = 2 =>
         IntegerOf(dCounts[1]) = 2 /\ IntegerOf(dCounts[2]) = 1
    /\ dConcurrency = 4 /\ Len(dCounts) = 2 =>
         IntegerOf(dCounts[1]) = 2 /\ IntegerOf(dCounts[2]) = 2

\* ------------------------------------------------------------------------
\* C35: however the bytes of a stream of well-formed frames are cut into
\* chunks, the frames handed on are, in order and once each, the frames that
\* the bytes delivered so far hold completely, with their type and body, and
\* the bytes of an incomplete last frame are exactly what the decoder keeps.
\* ------------------------------------------------------------------------

\* number of bytes delivered so far
Delivered == Len(StreamBytes(sentFrames)) - Len(wire)

\* number of frames that the bytes delivered so far hold completely
Whole ==
  CHOOSE k \in 0..Len(sentFrames) :
    /\ Len(StreamBytes(SubSeq(sentFrames, 1, k))) <= Delivered
    /\ k < Len(sentFrames) => Len(StreamBytes(SubSeq(sentFrames, 1, k + 1))) > Delivered

C35_DecodingIgnoresChunking ==
  /\ frames = SubSeq(sentFrames, 1, Whole)
  /\ buffer = SubSeq(StreamBytes(sentFrames),
                     Len(StreamBytes(SubSeq(sentFrames, 1, Whole))) + 1, Delivered)

\* two frames were delivered in chunks of which at least one ended inside a
\* frame, and both frames have been handed on
C35_Witness ==
  /\ Len(sentFrames) = 2
  /\ wire = <<>>
  /\ retained
  /\ frames = sentFrames
  /\ \E i \in 1..2 : sentFrames[i].data # <<>>

\* ------------------------------------------------------------------------
\* C36: a frame that settles the promise of a command was sent by nsqd in
\* reply to that command; an ERROR caused by a command without a waiter
\* (RDY, FIN, REQ, TOUCH) settles no other command's promise.
\* ------------------------------------------------------------------------
C36_SettledByOwnReply ==
  [][inFlight # <<>> /\ inFlight' = Tail(inFlight) /\ waiting # <<>>
       => Head(waiting) = Head(inFlight).cause]_vars

\* ------------------------------------------------------------------------
\* C37: every command with a response that was written is settled in the
\* end (resolved or rejected), also when the socket dropped before the reply
\* arrived and the connection has reconnected; only a connection that has
\* used up its connect attempts is left aside.
\* ------------------------------------------------------------------------

\* _reconnect() found the connect attempts used up: no timer, no socket
GaveUp == socket = "down" /\ ~reconnectTimer /\ state \notin {"Closed", "Reconnecting"}

C37_WrittenCommandsSettle ==
  \A i \in 1..MaxCmds : (i \in unresolved) ~> (i \notin unresolved \/ GaveUp)

\* ------------------------------------------------------------------------
\* C38: the Queue runs at most one action at a time, whatever the order of
\* add(), start(), stop() and the completions, and starts the tasks in queue
\* order: the pushed tasks in the order of their add(), a task added with
\* first = true ahead of the tasks queued at that moment.
\* ------------------------------------------------------------------------

PushedInOrder ==
  \A i, j \in 1..Len(qStarted) :
    i < j /\ qStarted[i] \notin qFirsts /\ qStarted[j] \notin qFirsts
      => qStarted[i] < qStarted[j]

FirstGoesFirst ==
  qNext' = qNext + 1 /\ qNext \in qFirsts'
    => \/ qItems' # <<>> /\ Head(qItems') = qNext
       \/ qStarted' # <<>> /\ qStarted'[Len(qStarted')] = qNext

C38_OneActionAtATime ==
  /\ [](Cardinality(qActive) <= 1 /\ PushedInOrder)
  /\ [][FirstGoesFirst]_vars

\* ------------------------------------------------------------------------
\* C39: once a promise returned by stop() has resolved, no action is started
\* until start() is called, also for tasks added meanwhile; the queued tasks
\* keep their order and their promises stay pending.
\* ------------------------------------------------------------------------

KeepsQueued ==
  /\ \/ qItems' = qItems
     \/ qItems' # <<>> /\ Tail(qItems') = qItems
     \/ qItems' # <<>> /\ qItems' = Append(qItems, qItems'[Len(qItems')])
  /\ \A i \in 1..Len(qItems') : qSettled'[qItems'[i]] = "pending"

C39_StoppedQueueStartsNothing ==
  [][qStopped /\ qStopped' => qStarted' = qStarted /\ KeepsQueued]_vars

\* ------------------------------------------------------------------------
\* C40: however subscribe(topic, channel) calls for one name interleave, also
\* when one is made before another has resolved, one connection at most is
\* created for the name and every call resolves to that connection.
\* ------------------------------------------------------------------------

CreatedFor(n) ==
  {c \in Calls : sqCalls[c].name = n /\ sqCalls[c].created /\ sqCalls[c].stage # "rejected"}

C40_OneConnectionPerName ==
  \A n \in Names :
    /\ Cardinality(CreatedFor(n)) <= 1
    /\ \A c, d \in Calls :
         /\ sqCalls[c].name = n /\ sqCalls[c].stage = "resolved"
         /\ sqCalls[d].name = n /\ sqCalls[d].stage = "resolved"
         => sqCalls[c].conn = sqCalls[d].conn

====
